---- MODULE Spec2Model ----
(***************************************************************************)
(* A model of tysm: the poll/backoff loop of BatchClient::wait_for_batch,  *)
(* BatchClient::get_batch_results and BatchClient::create_batch            *)
(* (src/src/batch.rs), the deduplicating submission planner and the        *)
(* reconciliation of ChatClient::batch_chat_with_messages_raw, alone and   *)
(* as one run from the listing to the return, the response cache of        *)
(* ChatClient::chat_with_messages_raw (src/src/chat_completions.rs), and   *)
(* the schema transform OpenAiTransform::transform (src/src/schema.rs),    *)
(* with the subschema walk of schemars' transform_subschemas it ends in,   *)
(* the paging loop of BatchClient::list_batches and the chunked requests   *)
(* of EmbeddingsClient::embed_fn (src/src/embeddings.rs).                  *)
(*                                                                         *)
(* Strings are sequences of chunks (a chunk is a TLA+ string or a digit),  *)
(* so that formatting is something a check can tell apart from identity.   *)
(* 64-bit unsigned integers are four 16-bit limbs, least significant       *)
(* first; 32-bit unsigned integers are two 16-bit limbs <<hi, lo>>.        *)
(***************************************************************************)
EXTENDS Integers, Sequences, FiniteSets, TLC

VARIABLES
    \* ---- BatchClient::wait_for_batch ----
    overflow_checks,  \* the build: TRUE = overflow-checks on (debug profile)
    batch_id,         \* the argument of wait_for_batch
    wpc,              \* "poll" (get_batch_status in flight), "sleep", "done"
    attempts,         \* u32, as <<hi, lo>>
    seconds_waited,   \* u64; stays below 2^17, kept as a number
    delay,            \* the delay computed by the last non-terminal poll
    batch,            \* the record fetched by the last successful poll
    wait_result,      \* what wait_for_batch returned
    wrapped,          \* ghost: `attempts` has wrapped around at least once
    wait_calls,       \* ghost: the collaborator calls wait_for_batch made
    slept,            \* ghost: the sleeps finished since the last poll
    \* ---- ChatClient::batch_chat_with_messages_raw, up to wait_for_batch ----
    model,            \* ChatClient::model
    pc,               \* "idle", "list", "upload", "create", "wait", "returned"
    prompts,          \* the argument: a sequence of (messages, response_format)
    custom_ids,       \* Vec of "request-<hash>", in submission order
    requests,         \* Vec<BatchRequestItem>, in submission order
    request_hash,     \* u64: fold of the distinct request hashes
    all_batches,      \* list_batches: the pages fetched so far
    last_batch_id,    \* list_batches: the pagination cursor
    plan_batch,       \* the job the run goes on with (reused or created)
    file_id,          \* the id upload_bytes returned
    calls,            \* ghost: the collaborator calls of this run, in order
    run_result,       \* the error the run returned, if it did
    runs,             \* ghost: number of runs started
    \* ---- the provider ----
    jobs,             \* the batch jobs, newest first (the listing order)
    files,            \* the names of the uploaded files; a file's id is its
                      \* position (the content is in `calls`)
    \* ---- BatchClient::get_batch_results and the reconciliation ----
    rpc,              \* "idle", "status", "file", "download", "parse", "map",
                      \* "collect", "match", "returned"
    res_batch,        \* the argument of get_batch_results
    rec_ids,          \* custom_ids of the run, in submission order
    content,          \* the text download_file returned
    lines_left,       \* content.lines(): the lines not yet parsed
    results,          \* get_batch_results: the items parsed so far; afterwards
                      \* the `results` of the reconciliation stages
    downloads,        \* ghost: number of download_file calls
    downloaded,       \* ghost: the file id given to download_file
    get_result,       \* what get_batch_results returned
    rec_result,       \* what batch_chat_with_messages_raw returned
    \* ---- OpenAiTransform::transform ----
    schema,           \* the schema the transform works on (&mut Schema)
    schema_in,        \* ghost: the schema before the first application
    schema_prev,      \* ghost: the schema before the last application
    applied,          \* ghost: number of applications so far
    \* ---- ChatClient::chat_with_messages_raw ----
    lru,              \* the client's cache: (key, response text) pairs, most
                      \* recently used first
    usage,            \* the client's total_tokens
    callers,          \* each caller's call: where it is, its request, the
                      \* response text it holds, its result, and as ghosts
                      \* whether the API answered it, the usage it added and
                      \* what had been answered and what had failed for its
                      \* request when it began
    answered,         \* ghost: per key, the contents the API path returned
    failed,           \* ghost: per key, the errors the API path returned for
                      \* an error payload or an unparseable body
    chats,            \* ghost: number of calls started
    \* ---- BatchClient::create_batch ----
    cpc,              \* "idle", "send", "text", "parse", "returned"
    create_args,      \* the arguments: input_file_id and metadata
    posted,           \* the JSON body given to the request builder
    response_text,    \* response.text(), once it has been read
    create_result,    \* what create_batch returned
    \* ---- EmbeddingsClient::embed_fn ----
    epc,              \* "idle", "chunk" (at the head of the for loop),
                      \* "send" (a request in flight), "returned"
    documents,        \* the argument
    batch_size,       \* EmbeddingsClient::batch_size
    position,         \* the chunks iterator: the documents taken so far
    embed_sent,       \* ghost: the `input` of each request sent, in order
    replies,          \* ghost: the response texts read, in order
    all_embeddings,   \* the (document, vector) pairs collected so far
    embed_result      \* what embed_fn returned

wait_vars == <<overflow_checks, batch_id, wpc, attempts, seconds_waited,
               delay, batch, wait_result, wrapped, wait_calls, slept>>

plan_vars == <<model, pc, prompts, custom_ids, requests, request_hash,
               all_batches, last_batch_id, plan_batch, file_id, calls,
               run_result, runs, jobs, files>>

res_vars == <<rpc, res_batch, rec_ids, content, lines_left, results,
              downloads, downloaded, get_result, rec_result>>

schema_vars == <<schema, schema_in, schema_prev, applied>>

chat_vars == <<lru, usage, callers, answered, failed, chats>>

create_vars == <<cpc, create_args, posted, response_text, create_result>>

embed_vars == <<epc, documents, batch_size, position, embed_sent, replies,
                all_embeddings, embed_result>>

vars == <<wait_vars, plan_vars, res_vars, schema_vars, chat_vars, create_vars,
          embed_vars>>

\* What an action of one part leaves alone.
beside_wait ==
    <<plan_vars, res_vars, schema_vars, chat_vars, create_vars, embed_vars>>
beside_plan ==
    <<wait_vars, res_vars, schema_vars, chat_vars, create_vars, embed_vars>>
beside_res ==
    <<wait_vars, plan_vars, schema_vars, chat_vars, create_vars, embed_vars>>
beside_schema ==
    <<wait_vars, plan_vars, res_vars, chat_vars, create_vars, embed_vars>>
beside_chat ==
    <<wait_vars, plan_vars, res_vars, schema_vars, create_vars, embed_vars>>
beside_create ==
    <<wait_vars, plan_vars, res_vars, schema_vars, chat_vars, embed_vars>>
beside_embed ==
    <<wait_vars, plan_vars, res_vars, schema_vars, chat_vars, create_vars>>

---------------------------------------------------------------------------
(* Fixed-width arithmetic *)

LimbBase == 2^16
LimbMax == LimbBase - 1

U64Zero == <<0, 0, 0, 0>>

U32Zero == <<0, 0>>
U32Max == <<LimbMax, LimbMax>>

\* `attempts += 1` on a u32: the sum, and whether it overflowed.
U32Inc(a) ==
    IF a[2] < LimbMax THEN [overflow |-> FALSE, value |-> <<a[1], a[2] + 1>>]
    ELSE IF a[1] < LimbMax THEN [overflow |-> FALSE, value |-> <<a[1] + 1, 0>>]
    ELSE [overflow |-> TRUE, value |-> U32Zero]

\* 2_u64.pow(exp), exp a u32: 2^exp mod 2^64 and whether 2^exp overflows u64.
Pow2U64(exp) ==
    IF exp[1] = 0 /\ exp[2] < 64
    THEN [overflow |-> FALSE,
          value |-> [i \in 1..4 |->
                       IF (exp[2] \div 16) + 1 = i THEN 2^(exp[2] % 16) ELSE 0]]
    ELSE [overflow |-> TRUE, value |-> U64Zero]

\* std::cmp::min(cap, x) for a small cap and a u64 x; the result is <= cap.
MinWithU64(cap, x) ==
    IF x[2] = 0 /\ x[3] = 0 /\ x[4] = 0 /\ x[1] < cap THEN x[1] ELSE cap

\* acc.wrapping_add(hash) on u64.
U64WrappingAdd(a, b) ==
    LET s1 == a[1] + b[1]
        s2 == a[2] + b[2] + (s1 \div LimbBase)
        s3 == a[3] + b[3] + (s2 \div LimbBase)
        s4 == a[4] + b[4] + (s3 \div LimbBase)
    IN  <<s1 % LimbBase, s2 % LimbBase, s3 % LimbBase, s4 % LimbBase>>

\* One step of the decimal formatting of a u64: x div 10 and x mod 10.
U64DivMod10(x) ==
    LET n4 == x[4]
        n3 == (n4 % 10) * LimbBase + x[3]
        n2 == (n3 % 10) * LimbBase + x[2]
        n1 == (n2 % 10) * LimbBase + x[1]
    IN  [quot |-> <<n1 \div 10, n2 \div 10, n3 \div 10, n4 \div 10>>,
         rem |-> n1 % 10]

DigitChar == <<"0", "1", "2", "3", "4", "5", "6", "7", "8", "9">>

RECURSIVE U64Digits(_)
U64Digits(x) ==
    IF x = U64Zero THEN <<>>
    ELSE LET d == U64DivMod10(x)
         IN  Append(U64Digits(d.quot), DigitChar[d.rem + 1])

\* u64::to_string(): the decimal digits, most significant first.
U64ToString(x) == IF x = U64Zero THEN <<"0">> ELSE U64Digits(x)

---------------------------------------------------------------------------
(* BatchStatus and the job record *)

BatchStatus == {"Validating", "Failed", "InProgress", "Finalizing",
                "Completed", "Expired", "Cancelling", "Cancelled"}

NonTerminal == {"InProgress", "Validating", "Finalizing"}

None == [some |-> FALSE]
Some(v) == [some |-> TRUE, value |-> v]

\* Option<Value>::unwrap_or_default(): Value::default() is Value::Null.
JsonNull == [json |-> "null"]
JsonString(s) == [json |-> "string", text |-> s]
UnwrapOrDefaultValue(opt) == IF opt.some THEN opt.value ELSE JsonNull

\* serde_json::Value::to_string(): the JSON text of the value.
ValueToString(v) ==
    IF v.json = "null" THEN <<"null">> ELSE <<"\"", v.text, "\"">>

BatchIds == {"batch_1", "batch_2"}

\* The bodies the provider may answer a get-status call with.
Replies(id) ==
    [id : {id}, status : NonTerminal \cup {"Expired", "Cancelling", "Cancelled"},
     errors : {None}, output_file_id : {None}]
    \cup [id : {id}, status : {"Failed"},
          errors : {None, Some(JsonString("rate limited"))},
          output_file_id : {None}]
    \cup [id : {id}, status : {"Completed"}, errors : {None},
          output_file_id : {None, Some("file-out")}]

GetBatchStatusErrors == {"RequestError", "JsonParseError", "OpenAiError"}

\* self.get_batch_status(batch_id), as the provider sees it.
GetStatusCall(id) == [op |-> "get_batch_status", id |-> id]

NoBatch == [id |-> "", status |-> "none", errors |-> None, output_file_id |-> None]

NoResult == [kind |-> "pending"]

---------------------------------------------------------------------------
(* BatchClient::wait_for_batch *)

TimeoutSeconds == 86400
MaxDelay == 120

\* How many polls of a stretch of zero-second delays are explored one by one.
MaxSpin == 2

\* The first value of `attempts` at the loop head whose iteration computes
\* 2^(attempts + 1) with attempts + 1 = 64.
SpinStart == 64 - 1

\* The ceiling check with the ceiling one full delay too high.
TimedOut_Late(waited) == waited >= TimeoutSeconds + MaxDelay

\* The seconds_waited >= 86400 check made before each sleep.
TimedOut(waited) == waited >= TimeoutSeconds

\* let delay = std::cmp::min(120, 2_u64.pow(attempts)) as u64;
\* with overflow checks the overflowing multiplication panics.
Backoff(att, checks) ==
    LET p == Pow2U64(att)
    IN  IF p.overflow /\ checks THEN [panic |-> TRUE, delay |-> 0]
        ELSE [panic |-> FALSE, delay |-> MinWithU64(MaxDelay, p.value)]

\* The returning arms with Cancelling moved to the Expired arm.
TerminalResult_CancellingExpires(id, b) ==
    CASE b.status = "Completed" -> [kind |-> "Ok", batch |-> b]
      [] b.status = "Failed" ->
            [kind |-> "BatchFailed", id |-> id,
             error |-> ValueToString(UnwrapOrDefaultValue(b.errors))]
      [] b.status \in {"Expired", "Cancelling"} ->
            [kind |-> "BatchExpired", id |-> id]
      [] b.status = "Cancelled" -> [kind |-> "BatchCancelled", id |-> id]

\* The arms of `match batch.status` that return.
TerminalResult(id, b) ==
    CASE b.status = "Completed" -> [kind |-> "Ok", batch |-> b]
      [] b.status = "Failed" ->
            [kind |-> "BatchFailed", id |-> id,
             error |-> ValueToString(UnwrapOrDefaultValue(b.errors))]
      [] b.status = "Expired" -> [kind |-> "BatchExpired", id |-> id]
      [] b.status \in {"Cancelled", "Cancelling"} ->
            [kind |-> "BatchCancelled", id |-> id]

WaitInit ==
    /\ overflow_checks \in BOOLEAN
    /\ batch_id \in BatchIds
    /\ wpc = "poll"
    /\ attempts = U32Zero
    /\ seconds_waited = 0
    /\ delay = 0
    /\ batch = NoBatch
    /\ wait_result = NoResult
    /\ wrapped = FALSE
    /\ wait_calls = {}
    /\ slept = 0

\* wait_for_batch not called.
WaitRest ==
    /\ overflow_checks = FALSE
    /\ batch_id = ""
    /\ wpc = "done"
    /\ attempts = U32Zero
    /\ seconds_waited = 0
    /\ delay = 0
    /\ batch = NoBatch
    /\ wait_result = NoResult
    /\ wrapped = FALSE
    /\ wait_calls = {}
    /\ slept = 0

\* get_batch_status fails: the `?` returns the error.
PollError ==
    /\ wpc = "poll"
    /\ \E e \in GetBatchStatusErrors :
          wait_result' = [kind |-> "GetBatchStatusError", error |-> e]
    /\ wpc' = "done"
    /\ wait_calls' = wait_calls \cup {GetStatusCall(batch_id)}
    /\ slept' = 0
    /\ UNCHANGED <<overflow_checks, batch_id, attempts, seconds_waited, delay,
                   batch, wrapped>>
    /\ UNCHANGED beside_wait

\* A faulty variant: a job seen as failed is cancelled as well.
PollTerminal_Cancels ==
    /\ wpc = "poll"
    /\ \E b \in Replies(batch_id) :
          /\ b.status \notin NonTerminal
          /\ batch' = b
          /\ wait_result' = TerminalResult(batch_id, b)
          /\ wait_calls' = wait_calls \cup {GetStatusCall(batch_id)}
                \cup (IF b.status = "Failed"
                      THEN {[op |-> "cancel_batch", id |-> batch_id]} ELSE {})
    /\ wpc' = "done"
    /\ slept' = 0
    /\ UNCHANGED <<overflow_checks, batch_id, attempts, seconds_waited, delay,
                   wrapped>>
    /\ UNCHANGED beside_wait

\* get_batch_status answers with a status that ends the loop.
PollTerminal ==
    /\ wpc = "poll"
    /\ \E b \in Replies(batch_id) :
          /\ b.status \notin NonTerminal
          /\ batch' = b
          /\ wait_result' = TerminalResult(batch_id, b)
    /\ wpc' = "done"
    /\ wait_calls' = wait_calls \cup {GetStatusCall(batch_id)}
    /\ slept' = 0
    /\ UNCHANGED <<overflow_checks, batch_id, attempts, seconds_waited, delay,
                   wrapped>>
    /\ UNCHANGED beside_wait

\* get_batch_status answers InProgress, Validating or Finalizing: the arm
\* increments attempts, checks the ceiling, computes the delay and sleeps.
PollNonTerminal ==
    /\ wpc = "poll"
    /\ \/ attempts[1] = 0 /\ attempts[2] < SpinStart + MaxSpin
       \/ attempts = U32Max
    /\ \E b \in Replies(batch_id) :
          /\ b.status \in NonTerminal
          /\ batch' = b
    /\ LET inc == U32Inc(attempts)
           bo == Backoff(inc.value, overflow_checks)
       IN  IF inc.overflow /\ overflow_checks
           THEN /\ wait_result' = [kind |-> "panic"]
                /\ wpc' = "done"
                /\ UNCHANGED <<attempts, delay, wrapped>>
           ELSE /\ attempts' = inc.value
                /\ wrapped' = (wrapped \/ inc.overflow)
                /\ IF TimedOut(seconds_waited)
                   THEN /\ wait_result' = [kind |-> "BatchTimeout", id |-> batch_id]
                        /\ wpc' = "done"
                        /\ UNCHANGED delay
                   ELSE IF bo.panic
                   THEN /\ wait_result' = [kind |-> "panic"]
                        /\ wpc' = "done"
                        /\ UNCHANGED delay
                   ELSE /\ delay' = bo.delay
                        /\ wpc' = "sleep"
                        /\ UNCHANGED wait_result
    /\ wait_calls' = wait_calls \cup {GetStatusCall(batch_id)}
    /\ slept' = 0
    /\ UNCHANGED <<overflow_checks, batch_id, seconds_waited>>
    /\ UNCHANGED beside_wait

\* A faulty variant: the delay is slept twice before the next poll.
Sleep_Twice ==
    /\ wpc = "sleep"
    /\ seconds_waited' = seconds_waited + delay + delay
    /\ slept' = slept + 2
    /\ wpc' = "poll"
    /\ UNCHANGED <<overflow_checks, batch_id, attempts, delay, batch,
                   wait_result, wrapped, wait_calls>>
    /\ UNCHANGED beside_wait

\* sleep(Duration::from_secs(delay)) returns; seconds_waited += delay.
Sleep ==
    /\ wpc = "sleep"
    /\ seconds_waited' = seconds_waited + delay
    /\ slept' = slept + 1
    /\ wpc' = "poll"
    /\ UNCHANGED <<overflow_checks, batch_id, attempts, delay, batch,
                   wait_result, wrapped, wait_calls>>
    /\ UNCHANGED beside_wait

\* Without overflow checks 2_u64.pow(n) is 0 for every n in 64..2^32-1: each
\* of those iterations polls, sleeps 0 seconds once and adds 0. This step is the
\* rest of such a stretch against a provider that keeps answering with a
\* non-terminal status: it ends at the loop head with attempts = u32::MAX.
SpinToWrap ==
    /\ wpc = "poll"
    /\ ~overflow_checks
    /\ attempts[1] = 0 /\ attempts[2] >= SpinStart
    /\ ~TimedOut(seconds_waited)
    /\ \E b \in Replies(batch_id) :
          /\ b.status \in NonTerminal
          /\ batch' = b
    /\ attempts' = U32Max
    /\ delay' = 0
    /\ wait_calls' = wait_calls \cup {GetStatusCall(batch_id)}
    /\ slept' = 1
    /\ UNCHANGED <<overflow_checks, batch_id, wpc, seconds_waited,
                   wait_result, wrapped>>
    /\ UNCHANGED beside_wait

---------------------------------------------------------------------------
(* Requests, fingerprints and the submission digest *)

Models == {"gpt-4o", "gpt-4o-mini"}

France == [messages |-> <<[role |-> "User", text |-> "capital of France"]>>,
           response_format |-> "Text"]
Japan == [messages |-> <<[role |-> "User", text |-> "capital of Japan"]>>,
          response_format |-> "Text"]

PromptSet == {France, Japan}

MaxRequests == 2

PromptLists == UNION {[1..n -> PromptSet] : n \in 0..MaxRequests}

\* #[derive(Debug)] on ChatMessage with one Text part.
DebugMessage(m) ==
    <<"ChatMessage { role: ", m.role, ", content: [Text { text: \"", m.text,
      "\" }] }">>

\* The Debug text of a Vec: "[" e1 ", " e2 ... "]".
RECURSIVE DebugElems(_)
DebugElems(ms) ==
    IF ms = <<>> THEN <<>>
    ELSE IF Len(ms) = 1 THEN DebugMessage(ms[1])
    ELSE DebugMessage(ms[1]) \o <<", ">> \o DebugElems(Tail(ms))

DebugVec(ms) == <<"[">> \o DebugElems(ms) \o <<"]">>

\* format!("{messages:?}, {response_format:?}, {:?}", self.model)
RequestStr(prompt, m) ==
    DebugVec(prompt.messages) \o <<", ", prompt.response_format, ", ">>
        \o <<"\"", m, "\"">>

\* str::as_bytes(), one number for each chunk of the texts the model uses.
ChunkCode ==
    ("[" :> 91) @@ ("]" :> 93) @@ (", " :> 44) @@ ("\"" :> 34)
    @@ ("ChatMessage { role: " :> 67) @@ (", content: [Text { text: \"" :> 99)
    @@ ("\" }] }" :> 125) @@ ("User" :> 85) @@ ("Text" :> 84)
    @@ ("capital of France" :> 70) @@ ("capital of Japan" :> 74)
    @@ ("gpt-4o" :> 103) @@ ("gpt-4o-mini" :> 109)

AsBytes(str) == [k \in 1..Len(str) |-> ChunkCode[str[k]]]

RECURSIVE HashLimb(_, _, _)
HashLimb(bytes, i, acc) ==
    IF bytes = <<>> THEN acc
    ELSE HashLimb(Tail(bytes), i, (acc * 251 + Head(bytes) * i + i) % LimbBase)

\* xxhash_rust::const_xxh3::xxh3_64: a fixed function from bytes to u64. The
\* library's mixing is replaced by a polynomial hash of the same width.
const_xxh3(bytes) == [i \in 1..4 |-> HashLimb(bytes, i, 40503 + i)]

\* A faulty variant: the hash of a request also takes in its position in the batch.
RequestHashAt_Positional(ps, i, m) ==
    const_xxh3(AsBytes(RequestStr(ps[i], m)) \o <<i>>)

\* The hash of each request text of the model, computed once.
RequestHashOf ==
    [p \in PromptSet, m \in Models |-> const_xxh3(AsBytes(RequestStr(p, m)))]

\* The request_hash the closure computes for the i-th prompt.
RequestHashAt(ps, i, m) == RequestHashOf[ps[i], m]

\* The decimal text of each request hash and of each sum of distinct request
\* hashes, computed once.
DecimalOf ==
    LET S == {RequestHashOf[c] : c \in PromptSet \X Models}
        RECURSIVE Sum(_)
        Sum(T) == IF T = {} THEN U64Zero
                  ELSE LET h == CHOOSE x \in T : TRUE
                       IN  U64WrappingAdd(h, Sum(T \ {h}))
    IN  [x \in {Sum(T) : T \in SUBSET S} |-> U64ToString(x)]

\* request_hash.to_string()
HashToString(h) == IF h \in DOMAIN DecimalOf THEN DecimalOf[h] ELSE U64ToString(h)

\* format!("request-{}", request_hash)
CustomId(h) == <<"request-">> \o HashToString(h)

\* BatchRequestItem::new_chat(custom_id, ChatRequest { model, messages, response_format })
new_chat(id, m, prompt) ==
    [custom_id |-> id, method |-> "POST", url |-> "/v1/chat/completions",
     body |-> [model |-> m, messages |-> prompt.messages,
               response_format |-> prompt.response_format]]

RECURSIVE FoldWrappingAdd(_, _)
FoldWrappingAdd(S, acc) ==
    IF S = {} THEN acc
    ELSE LET h == CHOOSE x \in S : TRUE
         IN  FoldWrappingAdd(S \ {h}, U64WrappingAdd(acc, h))

RECURSIVE FoldShiftAdd(_, _)
FoldShiftAdd(hs, acc) ==
    IF hs = <<>> THEN acc
    ELSE FoldShiftAdd(Tail(hs), U64WrappingAdd(U64WrappingAdd(acc, acc), Head(hs)))

\* A faulty variant: the hashes are folded in submission order with a combination that
\* is not commutative (acc * 2 + hash).
SubmissionDigest_Ordered(hashes) == FoldShiftAdd(hashes, U64Zero)

\* A faulty variant: every hash of the list is added, repeated ones too.
SubmissionDigest_EveryOccurrence(hashes) ==
    LET RECURSIVE Sum(_)
        Sum(hs) == IF hs = <<>> THEN U64Zero
                   ELSE U64WrappingAdd(Head(hs), Sum(Tail(hs)))
    IN  Sum(hashes)

\* The hashes are collected into a HashSet and folded with wrapping_add.
SubmissionDigest(hashes) ==
    FoldWrappingAdd({hashes[i] : i \in DOMAIN hashes}, U64Zero)

\* serde_json::to_string(request) for a BatchRequestItem: a JSON object with
\* the struct's fields in declaration order.
SerializeItem(r) ==
    [json |-> "object",
     fields |-> <<<<"custom_id", r.custom_id>>, <<"method", r.method>>,
                  <<"url", r.url>>, <<"body", r.body>>>>]

RECURSIVE create_batch_content_NoNewline(_)
\* A faulty variant: the records are written without the line terminator.
create_batch_content_NoNewline(rs) ==
    IF rs = <<>> THEN <<>>
    ELSE <<SerializeItem(rs[1])>> \o create_batch_content_NoNewline(Tail(rs))

RECURSIVE create_batch_content(_)
\* BatchClient::create_batch_content: writeln!(content, "{}", json) per request.
create_batch_content(rs) ==
    IF rs = <<>> THEN <<>>
    ELSE <<SerializeItem(rs[1]), "\n">> \o create_batch_content(Tail(rs))

---------------------------------------------------------------------------
(* The provider: batch jobs and files *)

\* How many jobs the provider returns in one page of a listing.
PageSize == 1

\* Jobs that were not created by the runs of this model.
MaxForeign == 3

\* How many of them carry a request_hash.
MaxHashed == 1

MaxRuns == 2

EmptyMap == <<>>

\* HashMap::from([("request_hash", request_hash.to_string())])
RunMetadata(h) == "request_hash" :> HashToString(h)

\* A faulty variant: create_batch stamps the map with a key of its own.
CreateBatchRequest_Stamped(input_file_id, metadata) ==
    [input_file_id |-> input_file_id, endpoint |-> "/v1/chat/completions",
     completion_window |-> "24h",
     metadata |-> ("request_hash" :> <<"0">>) @@ metadata]

\* The JSON body create_batch posts: the caller's map is its "metadata".
CreateBatchRequest(input_file_id, metadata) ==
    [input_file_id |-> input_file_id, endpoint |-> "/v1/chat/completions",
     completion_window |-> "24h", metadata |-> metadata]

\* The digest a run computes for the single request France.
FranceDigest(m) == SubmissionDigest(<<RequestHashAt(<<France>>, 1, m)>>)

\* Jobs of other clients that carry no request_hash: no metadata at all, or
\* a map without the key.
PlainJobs ==
    [status : {"Completed"}, metadata : {None, Some("name" :> <<"My Batch">>)}]

\* Jobs of other clients that carry a request_hash: the decimal text of
\* FranceDigest in every status, and that number written with a leading zero.
HashedJobs(m) ==
    [status : BatchStatus, metadata : {Some(RunMetadata(FranceDigest(m)))}]
    \cup [status : {"Completed"},
          metadata : {Some("request_hash" :>
                              (<<"0">> \o HashToString(FranceDigest(m))))}]

HasHash(j) ==
    IF j.metadata.some THEN "request_hash" \in DOMAIN j.metadata.value ELSE FALSE

\* The status changes the provider makes to a job.
ProviderSteps(st) ==
    CASE st = "Validating" -> {"InProgress", "Failed", "Expired", "Cancelling"}
      [] st = "InProgress" -> {"Finalizing", "Failed", "Expired", "Cancelling"}
      [] st = "Finalizing" -> {"Completed", "Failed", "Expired", "Cancelling"}
      [] st = "Cancelling" -> {"Cancelled"}
      [] OTHER -> {}

NewJob(status, metadata, input, origin) ==
    [id |-> Len(jobs) + 1, status |-> status, metadata |-> metadata,
     input_file_id |-> input, origin |-> origin]

\* The provider's answer to list_batches_limited(None, after).
ListReply(after) ==
    LET start == IF after.some
                 THEN (CHOOSE k \in 1..Len(jobs) : jobs[k].id = after.value) + 1
                 ELSE 1
        end == IF start + PageSize - 1 < Len(jobs) THEN start + PageSize - 1
               ELSE Len(jobs)
    IN  [data |-> SubSeq(jobs, start, end), has_more |-> end < Len(jobs)]

---------------------------------------------------------------------------
(* ChatClient::batch_chat_with_messages_raw up to the wait_for_batch call *)

\* BatchStatus::as_str: the status as the provider spells it.
as_str(st) ==
    CASE st = "Validating" -> "validating"
      [] st = "Failed" -> "failed"
      [] st = "InProgress" -> "in_progress"
      [] st = "Finalizing" -> "finalizing"
      [] st = "Completed" -> "completed"
      [] st = "Expired" -> "expired"
      [] st = "Cancelling" -> "cancelling"
      [] st = "Cancelled" -> "cancelled"

\* A faulty variant: every job counts as still active.
StillActive_Any(b) == TRUE

\* ["completed", "in_progress", "validating"].contains(&batch.status.as_str())
StillActive(b) == as_str(b.status) \in {"completed", "in_progress", "validating"}

\* metadata.unwrap_or_default().get("request_hash")
\*     .map(|s| s == &request_hash.to_string()).unwrap_or_default()
HashMatches(b, h) ==
    LET md == IF b.metadata.some THEN b.metadata.value ELSE EmptyMap
    IN  IF "request_hash" \in DOMAIN md
        THEN md["request_hash"] = HashToString(h)
        ELSE FALSE

\* The closure given to `find`.
IsReusable(b, h) == IF ~StillActive(b) THEN FALSE ELSE HashMatches(b, h)

\* all_batches.iter().find(..).cloned()
FindBatch(bs, h) ==
    LET hits == {k \in 1..Len(bs) : IsReusable(bs[k], h)}
    IN  IF hits = {} THEN None
        ELSE Some(bs[CHOOSE k \in hits : \A j \in hits : k <= j])

\* A faulty variant: list_batches returns after its first page.
ListingDone_FirstPage(reply) == TRUE

\* list_batches: the two `break`s of the loop.
ListingDone(reply) == reply.data = <<>> \/ ~reply.has_more

PlanInit ==
    /\ model \in Models
    /\ pc = "idle"
    /\ prompts = <<>>
    /\ custom_ids = <<>>
    /\ requests = <<>>
    /\ request_hash = U64Zero
    /\ all_batches = <<>>
    /\ last_batch_id = None
    /\ plan_batch = None
    /\ file_id = None
    /\ calls = <<>>
    /\ run_result = NoResult
    /\ runs = 0
    /\ jobs = <<>>
    /\ files = <<>>

AtRest == pc \in {"idle", "wait", "returned"}

\* Before the first run: another client has created a job.
ProviderAddJob ==
    /\ pc = "idle"
    /\ Len(jobs) < MaxForeign
    /\ \E f \in PlainJobs \cup
                  (IF Cardinality({k \in 1..Len(jobs) : HasHash(jobs[k])}) < MaxHashed
                   THEN HashedJobs(model) ELSE {}) :
          jobs' = <<NewJob(f.status, f.metadata, 0, "foreign")>> \o jobs
    /\ UNCHANGED <<model, pc, prompts, custom_ids, requests, request_hash,
                   all_batches, last_batch_id, plan_batch, file_id, calls,
                   run_result, runs, files>>
    /\ UNCHANGED beside_plan

\* The provider moves a job created by a run to its next status.
ProviderAdvance ==
    /\ AtRest
    /\ runs < MaxRuns
    /\ \E k \in 1..Len(jobs) :
          /\ jobs[k].origin = "run"
          /\ \E st \in ProviderSteps(jobs[k].status) :
                jobs' = [jobs EXCEPT ![k].status = st]
    /\ UNCHANGED <<model, pc, prompts, custom_ids, requests, request_hash,
                   all_batches, last_batch_id, plan_batch, file_id, calls,
                   run_result, runs, files>>
    /\ UNCHANGED beside_plan

\* The call, up to the first await: the custom ids, the request items and
\* the submission digest; list_batches starts with no cursor.
StartRun ==
    /\ AtRest
    /\ runs < MaxRuns
    /\ \E ps \in PromptLists :
          LET hashes == [i \in 1..Len(ps) |-> RequestHashAt(ps, i, model)]
              ids == [i \in 1..Len(ps) |-> CustomId(hashes[i])]
          IN  /\ prompts' = ps
              /\ custom_ids' = ids
              /\ requests' = [i \in 1..Len(ps) |-> new_chat(ids[i], model, ps[i])]
              /\ request_hash' = SubmissionDigest(hashes)
    /\ runs' = runs + 1
    /\ all_batches' = <<>>
    /\ last_batch_id' = None
    /\ plan_batch' = None
    /\ file_id' = None
    /\ calls' = <<>>
    /\ run_result' = NoResult
    /\ pc' = "list"
    /\ UNCHANGED <<model, jobs, files>>
    /\ UNCHANGED beside_plan

\* list_batches_limited fails: list_batches and the run return the error.
ListError ==
    /\ pc = "list"
    /\ calls' = Append(calls, [op |-> "list", after |-> last_batch_id])
    /\ run_result' = [kind |-> "ListBatchesError"]
    /\ pc' = "returned"
    /\ UNCHANGED <<model, prompts, custom_ids, requests, request_hash,
                   all_batches, last_batch_id, plan_batch, file_id, runs, jobs, files>>
    /\ UNCHANGED beside_plan

\* One page of list_batches. After the last page the run looks for a job to
\* reuse: with one it goes on to wait_for_batch, without one it builds the
\* content and uploads it.
ListPage ==
    /\ pc = "list"
    /\ calls' = Append(calls, [op |-> "list", after |-> last_batch_id])
    /\ LET reply == ListReply(last_batch_id)
           all == all_batches \o reply.data
       IN  /\ all_batches' = all
           /\ last_batch_id' = IF reply.data = <<>> THEN last_batch_id
                               ELSE Some(reply.data[Len(reply.data)].id)
           /\ IF ~ListingDone(reply)
              THEN /\ pc' = "list"
                   /\ UNCHANGED plan_batch
              ELSE LET found == FindBatch(all, request_hash)
                   IN  /\ plan_batch' = found
                       /\ pc' = IF found.some THEN "wait" ELSE "upload"
    /\ UNCHANGED <<model, prompts, custom_ids, requests, request_hash, file_id,
                   run_result, runs, jobs, files>>
    /\ UNCHANGED beside_plan

\* A faulty variant: a failed upload is tried again.
UploadError_Retry ==
    /\ pc = "upload"
    /\ calls' = Append(calls, [op |-> "upload",
                               content |-> create_batch_content(requests)])
    /\ UNCHANGED <<model, pc, prompts, custom_ids, requests, request_hash,
                   all_batches, last_batch_id, plan_batch, file_id, run_result,
                   runs, jobs, files>>
    /\ UNCHANGED beside_plan

\* upload_bytes("batch_request", content, Batch) fails.
UploadError ==
    /\ pc = "upload"
    /\ calls' = Append(calls, [op |-> "upload",
                               content |-> create_batch_content(requests)])
    /\ run_result' = [kind |-> "FileUploadError"]
    /\ pc' = "returned"
    /\ UNCHANGED <<model, prompts, custom_ids, requests, request_hash,
                   all_batches, last_batch_id, plan_batch, file_id, runs, jobs, files>>
    /\ UNCHANGED beside_plan

\* upload_bytes stores the content and returns the file's id; create_batch
\* is called with it.
Upload ==
    /\ pc = "upload"
    /\ LET blob == create_batch_content(requests)
       IN  /\ files' = Append(files, "batch_request")
           /\ calls' = Append(calls, [op |-> "upload", content |-> blob])
    /\ file_id' = Some(Len(files) + 1)
    /\ pc' = "create"
    /\ UNCHANGED <<model, prompts, custom_ids, requests, request_hash,
                   all_batches, last_batch_id, plan_batch, run_result,
                   runs, jobs>>
    /\ UNCHANGED beside_plan

\* create_batch fails: no job is made.
CreateError ==
    /\ pc = "create"
    /\ LET body == CreateBatchRequest(file_id.value, RunMetadata(request_hash))
       IN  calls' = Append(calls, [op |-> "create",
                                   input_file_id |-> body.input_file_id,
                                   metadata |-> body.metadata])
    /\ run_result' = [kind |-> "CreateBatchError"]
    /\ pc' = "returned"
    /\ UNCHANGED <<model, prompts, custom_ids, requests, request_hash,
                   all_batches, last_batch_id, plan_batch, file_id, runs, jobs, files>>
    /\ UNCHANGED beside_plan

\* create_batch(file_obj.id, {"request_hash": digest}): the provider makes the
\* job, which starts in Validating, and the run goes on to wait_for_batch.
CreateBatch ==
    /\ pc = "create"
    /\ LET body == CreateBatchRequest(file_id.value, RunMetadata(request_hash))
           job == NewJob("Validating", Some(body.metadata), body.input_file_id,
                         "run")
       IN  /\ jobs' = <<job>> \o jobs
           /\ plan_batch' = Some(job)
           /\ calls' = Append(calls, [op |-> "create",
                                      input_file_id |-> body.input_file_id,
                                      metadata |-> body.metadata])
    /\ pc' = "wait"
    /\ UNCHANGED <<model, prompts, custom_ids, requests, request_hash,
                   all_batches, last_batch_id, file_id, run_result, runs, files>>
    /\ UNCHANGED beside_plan

\* The first run of a client.
FirstRun == runs = 0 /\ StartRun

\* One run against the jobs other clients left.
PlanNext ==
    \/ ProviderAddJob
    \/ FirstRun
    \/ ListError
    \/ ListPage
    \/ UploadError
    \/ Upload
    \/ CreateError
    \/ CreateBatch

\* Runs one after the other, the provider moving their jobs in between.
RerunNext ==
    \/ ProviderAdvance
    \/ StartRun
    \/ ListError
    \/ ListPage
    \/ UploadError
    \/ Upload
    \/ CreateError
    \/ CreateBatch

---------------------------------------------------------------------------
(* BatchClient::list_batches against a provider that pages as it likes *)

\* How many pages of one listing are followed.
MaxPages == 3

\* A job of a page.
ListedRecord(n) ==
    [id |-> n, status |-> "Completed", metadata |-> None, input_file_id |-> 0,
     origin |-> "foreign"]

\* The BatchList bodies list_batches_limited may return.
AnyPages ==
    [data : {<<>>, <<ListedRecord(1)>>, <<ListedRecord(2), ListedRecord(3)>>,
             <<ListedRecord(3), ListedRecord(1)>>},
     has_more : BOOLEAN]

\* A faulty variant: the loop gives up after two pages.
ListFetch_TwoPages ==
    /\ pc = "list"
    /\ Len(calls) < MaxPages
    /\ \E reply \in AnyPages :
          /\ calls' = Append(calls, [op |-> "list", after |-> last_batch_id,
                                     reply |-> reply])
          /\ all_batches' = all_batches \o reply.data
          /\ last_batch_id' = IF reply.data = <<>> THEN last_batch_id
                              ELSE Some(reply.data[Len(reply.data)].id)
          /\ pc' = IF ListingDone(reply) \/ Len(calls) >= 1 THEN "listed"
                   ELSE "list"
    /\ UNCHANGED <<model, prompts, custom_ids, requests, request_hash,
                   plan_batch, file_id, run_result, runs, jobs, files>>
    /\ UNCHANGED beside_plan

\* A faulty variant: the cursor is left where it was.
ListFetch_KeepsCursor ==
    /\ pc = "list"
    /\ Len(calls) < MaxPages
    /\ \E reply \in AnyPages :
          /\ calls' = Append(calls, [op |-> "list", after |-> last_batch_id,
                                     reply |-> reply])
          /\ all_batches' = all_batches \o reply.data
          /\ UNCHANGED last_batch_id
          /\ pc' = IF ListingDone(reply) THEN "listed" ELSE "list"
    /\ UNCHANGED <<model, prompts, custom_ids, requests, request_hash,
                   plan_batch, file_id, run_result, runs, jobs, files>>
    /\ UNCHANGED beside_plan

\* One turn of the loop of list_batches: the page is asked for after the
\* cursor; an empty page ends the loop; otherwise the cursor moves to the
\* page's last job, the page is appended, and has_more = false ends the loop.
\* After the loop all_batches is returned.
ListFetch ==
    /\ pc = "list"
    /\ Len(calls) < MaxPages
    /\ \E reply \in AnyPages :
          /\ calls' = Append(calls, [op |-> "list", after |-> last_batch_id,
                                     reply |-> reply])
          /\ all_batches' = all_batches \o reply.data
          /\ last_batch_id' = IF reply.data = <<>> THEN last_batch_id
                              ELSE Some(reply.data[Len(reply.data)].id)
          /\ pc' = IF ListingDone(reply) THEN "listed" ELSE "list"
    /\ UNCHANGED <<model, prompts, custom_ids, requests, request_hash,
                   plan_batch, file_id, run_result, runs, jobs, files>>
    /\ UNCHANGED beside_plan

\* list_batches_limited fails on a page that is within the pages followed.
ListFetchError == Len(calls) < MaxPages /\ ListError

ListNext ==
    \/ FirstRun
    \/ ListFetch
    \/ ListFetchError

---------------------------------------------------------------------------
(* BatchClient::get_batch_results *)

\* The longest output file, in lines.
MaxLines == 2

\* The custom ids a run submits for the prompt list ps.
IdsOf(ps, m) == [i \in 1..Len(ps) |-> CustomId(RequestHashAt(ps, i, m))]

\* The `body` of a BatchItemResponse: a chat completion with its choices'
\* message contents, an {"error": ...} object, or some other JSON value.
ChatBody(choices) == [json |-> "chat", choices |-> choices]
ErrorBody == [json |-> "error", error |-> "server_error"]
OtherBody == [json |-> "other"]

ChoiceLists == {<<>>, <<"alpha">>, <<"beta", "gamma">>}

ItemResponse(body) == Some([status_code |-> 200, body |-> body])

ItemError == Some([code |-> "rate_limit", message |-> "rate limited"])

\* The (response, error) pairs of a BatchResponseItem.
ItemOutcomes ==
    {[response |-> ItemResponse(ChatBody(c)), error |-> None] : c \in ChoiceLists}
    \cup {[response |-> ItemResponse(ErrorBody), error |-> None],
          [response |-> ItemResponse(OtherBody), error |-> None],
          [response |-> None, error |-> ItemError],
          [response |-> None, error |-> None]}

\* The result items of a job whose requests carry the custom ids `ids`.
BatchResponseItems(ids) ==
    {[id |-> "batch_req", custom_id |-> c, response |-> o.response,
      error |-> o.error] : c \in ids, o \in ItemOutcomes}

\* The chunks of an output file: the JSON text of an item, some other text,
\* a line feed.
JsonText(item) == [t |-> "json", item |-> item]
OtherText == [t |-> "text"]
LineFeed == [t |-> "nl"]

LineTexts(ids) ==
    {<<JsonText(it)>> : it \in BatchResponseItems(ids)} \cup {<<OtherText>>, <<>>}

RECURSIVE JoinLines(_)
JoinLines(ls) ==
    IF ls = <<>> THEN <<>>
    ELSE IF Len(ls) = 1 THEN ls[1]
    ELSE ls[1] \o <<LineFeed>> \o JoinLines(Tail(ls))

\* The texts download_file may return for a job with these custom ids.
FileContents(ids) ==
    {JoinLines(ls) : ls \in UNION {[1..n -> LineTexts(ids)] : n \in 0..MaxLines}}

\* str::lines(): the text split at line feeds; a final empty line is not a
\* line.
RECURSIVE SplitLines(_, _)
SplitLines(c, cur) ==
    IF c = <<>> THEN (IF cur = <<>> THEN <<>> ELSE <<cur>>)
    ELSE IF Head(c).t = "nl" THEN <<cur>> \o SplitLines(Tail(c), <<>>)
    ELSE SplitLines(Tail(c), Append(cur, Head(c)))

Lines(c) == SplitLines(c, <<>>)

\* serde_json::from_str::<BatchResponseItem>(line)
FromStrItem(line) ==
    IF Len(line) = 1 /\ line[1].t = "json"
    THEN [ok |-> TRUE, value |-> line[1].item]
    ELSE [ok |-> FALSE]

\* The jobs get_batch_results may be called with.
ResultBatches ==
    {[id |-> "batch_1", status |-> st, output_file_id |-> f] :
        st \in BatchStatus, f \in {None, Some("file-out")}}

\* The `?` on get_batch_results in batch_chat_with_messages_raw.
FromGetBatchResultsError(e) == [kind |-> "GetBatchResultsError", error |-> e]

ResInit ==
    /\ rpc = "status"
    /\ res_batch \in ResultBatches
    /\ rec_ids \in {IdsOf(ps, model) : ps \in PromptLists}
    /\ content = <<>>
    /\ lines_left = <<>>
    /\ results = <<>>
    /\ downloads = 0
    /\ downloaded = None
    /\ get_result = NoResult
    /\ rec_result = NoResult

\* get_batch_results not called.
ResRest ==
    /\ rpc = "idle"
    /\ res_batch = NoBatch
    /\ rec_ids = <<>>
    /\ content = <<>>
    /\ lines_left = <<>>
    /\ results = <<>>
    /\ downloads = 0
    /\ downloaded = None
    /\ get_result = NoResult
    /\ rec_result = NoResult

\* A faulty variant: a job that is finalizing passes the status check.
NotCompleted_ButFinalizing(b) == b.status \notin {"Completed", "Finalizing"}

\* batch.status != BatchStatus::Completed
NotCompleted(b) == b.status # "Completed"

\* A faulty variant: the output file id is not looked at.
NoOutputFile_Ignored(b) == FALSE

\* batch.output_file_id is None
NoOutputFile(b) == ~b.output_file_id.some

\* if batch.status != BatchStatus::Completed { return Err(BatchNotCompleted) }
StatusCheck ==
    /\ rpc = "status"
    /\ IF NotCompleted(res_batch)
       THEN LET e == [kind |-> "BatchNotCompleted", status |-> res_batch.status]
            IN  /\ get_result' = e
                /\ rec_result' = FromGetBatchResultsError(e)
                /\ rpc' = "returned"
       ELSE /\ rpc' = "file"
            /\ UNCHANGED <<get_result, rec_result>>
    /\ UNCHANGED <<res_batch, rec_ids, content, lines_left, results, downloads, downloaded>>
    /\ UNCHANGED beside_res

\* batch.output_file_id.as_ref().ok_or_else(|| BatchNoOutputFile(batch.id))?
OutputFileCheck ==
    /\ rpc = "file"
    /\ IF NoOutputFile(res_batch)
       THEN LET e == [kind |-> "BatchNoOutputFile", id |-> res_batch.id]
            IN  /\ get_result' = e
                /\ rec_result' = FromGetBatchResultsError(e)
                /\ rpc' = "returned"
       ELSE /\ rpc' = "download"
            /\ UNCHANGED <<get_result, rec_result>>
    /\ UNCHANGED <<res_batch, rec_ids, content, lines_left, results, downloads, downloaded>>
    /\ UNCHANGED beside_res

\* download_file fails.
DownloadError ==
    /\ rpc = "download"
    /\ downloads' = downloads + 1
    /\ downloaded' = res_batch.output_file_id
    /\ LET e == [kind |-> "DownloadFileError"]
       IN  /\ get_result' = e
           /\ rec_result' = FromGetBatchResultsError(e)
    /\ rpc' = "returned"
    /\ UNCHANGED <<res_batch, rec_ids, content, lines_left, results>>
    /\ UNCHANGED beside_res

\* download_file returns the text of the output file.
Download ==
    /\ rpc = "download"
    /\ downloads' = downloads + 1
    /\ downloaded' = res_batch.output_file_id
    /\ \E c \in FileContents({rec_ids[i] : i \in 1..Len(rec_ids)}) :
          /\ content' = c
          /\ lines_left' = Lines(c)
    /\ rpc' = "parse"
    /\ UNCHANGED <<res_batch, rec_ids, results, get_result, rec_result>>
    /\ UNCHANGED beside_res

\* A faulty variant: a line that does not parse is skipped.
ParseLine_SkipBad ==
    /\ rpc = "parse"
    /\ lines_left # <<>>
    /\ LET r == FromStrItem(Head(lines_left))
       IN  results' = IF r.ok THEN Append(results, r.value) ELSE results
    /\ lines_left' = Tail(lines_left)
    /\ UNCHANGED <<rpc, res_batch, rec_ids, content, downloads, downloaded, get_result,
                   rec_result>>
    /\ UNCHANGED beside_res

\* One turn of `for line in content.lines()`.
ParseLine ==
    /\ rpc = "parse"
    /\ lines_left # <<>>
    /\ LET r == FromStrItem(Head(lines_left))
       IN  IF r.ok
           THEN /\ results' = Append(results, r.value)
                /\ lines_left' = Tail(lines_left)
                /\ UNCHANGED <<rpc, get_result, rec_result>>
           ELSE LET e == [kind |-> "JsonParseError", content |-> content]
                IN  /\ get_result' = e
                    /\ rec_result' = FromGetBatchResultsError(e)
                    /\ rpc' = "returned"
                    /\ UNCHANGED <<results, lines_left>>
    /\ UNCHANGED <<res_batch, rec_ids, content, downloads, downloaded>>
    /\ UNCHANGED beside_res

\* Ok(results)
ReturnResults ==
    /\ rpc = "parse"
    /\ lines_left = <<>>
    /\ get_result' = [kind |-> "Ok", items |-> results]
    /\ rpc' = "map"
    /\ UNCHANGED <<res_batch, rec_ids, content, lines_left, results, downloads, downloaded,
                   rec_result>>
    /\ UNCHANGED beside_res

---------------------------------------------------------------------------
(* The reconciliation of batch_chat_with_messages_raw *)

\* serde_json::from_value::<ChatResponseOrError>(body): an object with the
\* key "error" is the Error variant, a chat completion the Response variant.
ParseChatResponseOrError(body) ==
    CASE body.json = "error" ->
            [ok |-> TRUE, value |-> [variant |-> "Error", error |-> body.error]]
      [] body.json = "chat" ->
            [ok |-> TRUE,
             value |-> [variant |-> "Response", choices |-> body.choices]]
      [] OTHER -> [ok |-> FALSE]

\* The first closure: an item becomes its error, or (custom_id, response);
\* `response.unwrap()` panics on an item without response and without error.
MapItem(item) ==
    IF item.error.some
    THEN [kind |-> "BatchItemError", error |-> item.error.value]
    ELSE IF ~item.response.some THEN [kind |-> "panic"]
    ELSE LET body == item.response.value.body
             r == ParseChatResponseOrError(body)
         IN  IF r.ok
             THEN [kind |-> "Ok", value |-> <<item.custom_id, r.value>>]
             ELSE [kind |-> "ApiParseError", response |-> body]

\* collect::<Result<Vec<_>, _>>(): the first Err in order, else all values.
RECURSIVE CollectVec(_, _)
CollectVec(outs, acc) ==
    IF outs = <<>> THEN [kind |-> "Ok", values |-> acc]
    ELSE IF Head(outs).kind # "Ok" THEN Head(outs)
    ELSE CollectVec(Tail(outs), Append(acc, Head(outs).value))

\* The second closure: the Error variant fails with the item's custom id.
SplitResponse(pair) ==
    IF pair[2].variant = "Response"
    THEN [kind |-> "Ok", value |-> pair]
    ELSE [kind |-> "OpenAiError", error |-> pair[2].error, custom_id |-> pair[1]]

RECURSIVE CollectMap_KeepsFirst(_, _)
\* A faulty variant: an earlier pair is kept when a later one has its key.
CollectMap_KeepsFirst(outs, acc) ==
    IF outs = <<>> THEN [kind |-> "Ok", values |-> acc]
    ELSE IF Head(outs).kind # "Ok" THEN Head(outs)
    ELSE LET pair == Head(outs).value
         IN  CollectMap_KeepsFirst(Tail(outs), acc @@ (pair[1] :> pair[2]))

\* collect::<Result<HashMap<_, _>, _>>(): a later pair replaces an earlier
\* one with the same key.
RECURSIVE CollectMap(_, _)
CollectMap(outs, acc) ==
    IF outs = <<>> THEN [kind |-> "Ok", values |-> acc]
    ELSE IF Head(outs).kind # "Ok" THEN Head(outs)
    ELSE LET pair == Head(outs).value
         IN  CollectMap(Tail(outs), (pair[1] :> pair[2]) @@ acc)

\* A faulty variant: the last choice is taken.
FirstChoice_Last(choices) ==
    IF choices = <<>> THEN None ELSE Some(choices[Len(choices)])

\* response.choices.first()
FirstChoice(choices) == IF choices = <<>> THEN None ELSE Some(Head(choices))

\* The third closure: the result of one submitted custom id.
MatchId(map, custom_id) ==
    IF custom_id \notin DOMAIN map
    THEN [kind |-> "CustomIdNotFound", custom_id |-> custom_id]
    ELSE LET choice == FirstChoice(map[custom_id].choices)
         IN  IF ~choice.some
             THEN [kind |-> "BatchNoChoices", custom_id |-> custom_id]
             ELSE [kind |-> "Ok", value |-> choice.value]

\* results.into_iter().map(...).collect::<Result<Vec<_>, _>>()?
MapItems ==
    /\ rpc = "map"
    /\ LET r == CollectVec([i \in 1..Len(get_result.items) |->
                               MapItem(get_result.items[i])], <<>>)
       IN  IF r.kind = "Ok"
           THEN /\ results' = r.values
                /\ rpc' = "collect"
                /\ UNCHANGED rec_result
           ELSE /\ rec_result' = r
                /\ rpc' = "returned"
                /\ UNCHANGED results
    /\ UNCHANGED <<res_batch, rec_ids, content, lines_left, downloads, downloaded,
                   get_result>>
    /\ UNCHANGED beside_res

\* results.into_iter().map(...).collect::<Result<HashMap<_, _>, _>>()?
CollectResponses ==
    /\ rpc = "collect"
    /\ LET r == CollectMap([i \in 1..Len(results) |-> SplitResponse(results[i])],
                           EmptyMap)
       IN  IF r.kind = "Ok"
           THEN /\ results' = r.values
                /\ rpc' = "match"
                /\ UNCHANGED rec_result
           ELSE /\ rec_result' = r
                /\ rpc' = "returned"
                /\ UNCHANGED results
    /\ UNCHANGED <<res_batch, rec_ids, content, lines_left, downloads, downloaded,
                   get_result>>
    /\ UNCHANGED beside_res

\* custom_ids.into_iter().map(...).collect::<Result<Vec<_>, _>>()?; Ok(results)
MatchIds ==
    /\ rpc = "match"
    /\ rec_result' = CollectVec([i \in 1..Len(rec_ids) |->
                                    MatchId(results, rec_ids[i])], <<>>)
    /\ rpc' = "returned"
    /\ UNCHANGED <<res_batch, rec_ids, content, lines_left, results, downloads, downloaded,
                   get_result>>
    /\ UNCHANGED beside_res

ResNext ==
    \/ StatusCheck
    \/ OutputFileCheck
    \/ DownloadError
    \/ Download
    \/ ParseLine
    \/ ReturnResults
    \/ MapItems
    \/ CollectResponses
    \/ MatchIds

---------------------------------------------------------------------------
(* batch_chat_with_messages_raw from the listing to its return *)

\* In a whole run: the jobs other clients left, the non-terminal polls of
\* wait_for_batch that are followed one by one, the requests of the run and
\* the lines of the output file.
MaxListed == 1
MaxPolls == 1
MaxRunRequests == 1
MaxRunLines == 1

\* The `?` on wait_for_batch.
FromWaitForBatchError(e) ==
    IF e.kind = "panic" THEN e ELSE [kind |-> "WaitForBatchError", error |-> e]

\* A faulty variant: a job listed as completed is read without a poll.
CallWaitForBatch_SkipCompleted ==
    /\ pc = "wait"
    /\ plan_batch.some
    /\ wait_result = NoResult
    /\ IF plan_batch.value.status = "Completed"
       THEN /\ res_batch' = [id |-> plan_batch.value.id, status |-> "Completed",
                             errors |-> None, output_file_id |-> Some("file-out")]
            /\ rec_ids' = custom_ids
            /\ rpc' = "status"
            /\ pc' = "results"
            /\ UNCHANGED <<batch_id, wpc>>
       ELSE /\ batch_id' = plan_batch.value.id
            /\ wpc' = "poll"
            /\ pc' = "waiting"
            /\ UNCHANGED <<res_batch, rec_ids, rpc>>
    /\ UNCHANGED <<overflow_checks, attempts, seconds_waited, delay, batch,
                   wait_result, wrapped, wait_calls, slept>>
    /\ UNCHANGED <<model, prompts, custom_ids, requests, request_hash,
                   all_batches, last_batch_id, plan_batch, file_id, calls,
                   run_result, runs, jobs, files>>
    /\ UNCHANGED <<content, lines_left, results, downloads, downloaded,
                   get_result, rec_result>>
    /\ UNCHANGED <<schema_vars, chat_vars, create_vars, embed_vars>>

\* batch_client.wait_for_batch(&batch.id): the job found in the listing or
\* the one just created.
CallWaitForBatch ==
    /\ pc = "wait"
    /\ plan_batch.some
    /\ wait_result = NoResult
    /\ batch_id' = plan_batch.value.id
    /\ wpc' = "poll"
    /\ pc' = "waiting"
    /\ UNCHANGED <<overflow_checks, attempts, seconds_waited, delay, batch,
                   wait_result, wrapped, wait_calls, slept>>
    /\ UNCHANGED <<model, prompts, custom_ids, requests, request_hash,
                   all_batches, last_batch_id, plan_batch, file_id, calls,
                   run_result, runs, jobs, files>>
    /\ UNCHANGED <<res_vars, schema_vars, chat_vars, create_vars, embed_vars>>

\* A faulty variant: a job that expired is submitted again.
WaitForBatchReturns_Resubmit ==
    /\ pc = "waiting"
    /\ wpc = "done"
    /\ IF wait_result.kind = "Ok"
       THEN /\ res_batch' = wait_result.batch
            /\ rec_ids' = custom_ids
            /\ rpc' = "status"
            /\ pc' = "results"
            /\ UNCHANGED run_result
       ELSE IF wait_result.kind = "BatchExpired"
       THEN /\ pc' = "upload"
            /\ UNCHANGED <<run_result, res_batch, rec_ids, rpc>>
       ELSE /\ run_result' = FromWaitForBatchError(wait_result)
            /\ pc' = "returned"
            /\ UNCHANGED <<res_batch, rec_ids, rpc>>
    /\ attempts' = U32Zero
    /\ seconds_waited' = 0
    /\ delay' = 0
    /\ slept' = 0
    /\ UNCHANGED <<overflow_checks, batch_id, wpc, batch, wait_result, wrapped,
                   wait_calls>>
    /\ UNCHANGED <<model, prompts, custom_ids, requests, request_hash,
                   all_batches, last_batch_id, plan_batch, file_id, calls,
                   runs, jobs, files>>
    /\ UNCHANGED <<content, lines_left, results, downloads, downloaded,
                   get_result, rec_result>>
    /\ UNCHANGED <<schema_vars, chat_vars, create_vars, embed_vars>>

\* wait_for_batch has returned: its error is the run's error (the `?`), its
\* job record is handed to get_batch_results. The locals of wait_for_batch
\* are gone.
WaitForBatchReturns ==
    /\ pc = "waiting"
    /\ wpc = "done"
    /\ IF wait_result.kind = "Ok"
       THEN /\ res_batch' = wait_result.batch
            /\ rec_ids' = custom_ids
            /\ rpc' = "status"
            /\ pc' = "results"
            /\ UNCHANGED run_result
       ELSE /\ run_result' = FromWaitForBatchError(wait_result)
            /\ pc' = "returned"
            /\ UNCHANGED <<res_batch, rec_ids, rpc>>
    /\ attempts' = U32Zero
    /\ seconds_waited' = 0
    /\ delay' = 0
    /\ slept' = 0
    /\ UNCHANGED <<overflow_checks, batch_id, wpc, batch, wait_result, wrapped,
                   wait_calls>>
    /\ UNCHANGED <<model, prompts, custom_ids, requests, request_hash,
                   all_batches, last_batch_id, plan_batch, file_id, calls,
                   runs, jobs, files>>
    /\ UNCHANGED <<content, lines_left, results, downloads, downloaded,
                   get_result, rec_result>>
    /\ UNCHANGED <<schema_vars, chat_vars, create_vars, embed_vars>>

\* The run returns what get_batch_results and the reconciliation gave.
RunReturns ==
    /\ pc = "results"
    /\ rpc = "returned"
    /\ run_result' = rec_result
    /\ pc' = "returned"
    /\ UNCHANGED <<model, prompts, custom_ids, requests, request_hash,
                   all_batches, last_batch_id, plan_batch, file_id, calls,
                   runs, jobs, files>>
    /\ UNCHANGED <<wait_vars, res_vars, schema_vars, chat_vars, create_vars, embed_vars>>

\* The parts of a whole run that are drawn from smaller sets than in the
\* runs of one part alone.
ListedJob == Len(jobs) < MaxListed /\ ProviderAddJob
RunStart == FirstRun /\ Len(prompts') <= MaxRunRequests
PollAgain == attempts[2] < MaxPolls /\ PollNonTerminal
RunDownload == Download /\ Len(lines_left') <= MaxRunLines

BatchNext ==
    \/ ListedJob
    \/ RunStart
    \/ ListError
    \/ ListPage
    \/ UploadError
    \/ Upload
    \/ CreateError
    \/ CreateBatch
    \/ CallWaitForBatch
    \/ PollError
    \/ PollTerminal
    \/ PollAgain
    \/ Sleep
    \/ WaitForBatchReturns
    \/ StatusCheck
    \/ OutputFileCheck
    \/ DownloadError
    \/ RunDownload
    \/ ParseLine
    \/ ReturnResults
    \/ MapItems
    \/ CollectResponses
    \/ MatchIds
    \/ RunReturns

---------------------------------------------------------------------------
(* OpenAiTransform::transform (src/src/schema.rs) *)

\* serde_json::Value: a payload under the name of its kind; the payload of
\* an object is a function from its keys.
JBool(b) == [bool |-> b]
JNum(n) == [num |-> n]
JStr(str) == [str |-> str]
JArr(seq) == [arr |-> seq]
JObj(map) == [obj |-> map]

\* Value::is_string, as_array, as_object
IsStr(val) == DOMAIN val = {"str"}
IsArr(val) == DOMAIN val = {"arr"}
IsObj(val) == DOMAIN val = {"obj"}

\* Map::insert, Map::remove
Insert(map, key, val) == (key :> val) @@ map
Remove(map, key) == [x \in DOMAIN map \ {key} |-> map[x]]

\* Value::try_into::<&mut Schema>: a schema is a boolean or an object.
IsSchema(val) == DOMAIN val \in {{"bool"}, {"obj"}}

\* The place of each property name in the order of str::cmp; a value that
\* is not a string is compared as "".
StrRank == ("a" :> 1) @@ ("b" :> 2) @@ ("z" :> 3)
AsStrRank(val) == IF IsStr(val) THEN StrRank[val.str] ELSE 0

\* Vec::sort_by(|a, b| a.as_str().unwrap_or("").cmp(...)): a stable sort.
RECURSIVE SortByStr(_)
SortByStr(seq) ==
    IF seq = <<>> THEN <<>>
    ELSE LET rest == SortByStr(Tail(seq))
             x == Head(seq)
             before == SelectSeq(rest, LAMBDA y : AsStrRank(y) < AsStrRank(x))
             after == SelectSeq(rest, LAMBDA y : AsStrRank(y) >= AsStrRank(x))
         IN  before \o <<x>> \o after

\* properties.into_iter().collect::<Vec<_>>() followed by the sort: the
\* elements of a set of strings in order.
RECURSIVE SortedSeqOf(_)
SortedSeqOf(S) ==
    IF S = {} THEN <<>>
    ELSE LET x == CHOOSE y \in S : \A w \in S : AsStrRank(y) <= AsStrRank(w)
         IN  <<x>> \o SortedSeqOf(S \ {x})

\* The keys under "properties", as a set of Value::String.
PropertiesSet(map) ==
    IF "properties" \in DOMAIN map /\ IsObj(map["properties"])
    THEN {JStr(key) : key \in DOMAIN map["properties"].obj}
    ELSE {}

\* The elements of the "required" array, as a set.
RequiredSet(map) ==
    IF "required" \in DOMAIN map /\ IsArr(map["required"])
    THEN {map["required"].arr[i] : i \in 1..Len(map["required"].arr)}
    ELSE {}

\* A faulty variant: the property names are added to what `required` held.
FixRequired_Append(map) ==
    IF PropertiesSet(map) # RequiredSet(map)
    THEN Insert(map, "required",
                JArr((IF "required" \in DOMAIN map /\ IsArr(map["required"])
                      THEN map["required"].arr ELSE <<>>)
                     \o SortedSeqOf(PropertiesSet(map))))
    ELSE map

\* if properties != required { required := sorted properties }
\* else { sort the required array, if there is one }
FixRequired(map) ==
    IF PropertiesSet(map) # RequiredSet(map)
    THEN Insert(map, "required", JArr(SortedSeqOf(PropertiesSet(map))))
    ELSE IF "required" \in DOMAIN map /\ IsArr(map["required"])
    THEN Insert(map, "required", JArr(SortByStr(map["required"].arr)))
    ELSE map

\* The body of `if obj.get("$ref").is_none()`.
Strict(map) ==
    FixRequired(Remove(Remove(Remove(
        Insert(map, "additionalProperties", JBool(FALSE)),
        "format"), "minimum"), "maximum"))

\* A faulty variant: the oneOf branches are added to an anyOf that is there.
OneOfToAnyOf_Merge(map) ==
    IF "oneOf" \in DOMAIN map
    THEN Remove(IF "anyOf" \in DOMAIN map /\ IsArr(map["anyOf"])
                      /\ IsArr(map["oneOf"])
                THEN Insert(map, "anyOf",
                            JArr(map["anyOf"].arr \o map["oneOf"].arr))
                ELSE Insert(map, "anyOf", map["oneOf"]), "oneOf")
    ELSE map

\* A faulty variant: an anyOf that is already there is kept.
OneOfToAnyOf_KeepAnyOf(map) ==
    IF "oneOf" \in DOMAIN map
    THEN Remove(IF "anyOf" \in DOMAIN map THEN map
                ELSE Insert(map, "anyOf", map["oneOf"]), "oneOf")
    ELSE map

\* oneOf keys are replaced with anyOf.
OneOfToAnyOf(map) ==
    IF "oneOf" \in DOMAIN map
    THEN Remove(Insert(map, "anyOf", map["oneOf"]), "oneOf")
    ELSE map

\* The keys transform_subschemas (schemars) looks under.
SingleKeys == {"not", "if", "then", "else", "contains", "additionalProperties",
               "propertyNames", "additionalItems"}
ArrayKeys == {"allOf", "anyOf", "oneOf", "prefixItems"}
MapKeys == {"properties", "patternProperties", "$defs", "definitions"}

\* OpenAiTransform::transform, transform_subschemas included.
RECURSIVE Transform(_)
Transform(s) ==
    IF ~IsObj(s) THEN s
    ELSE LET strict == IF "$ref" \notin DOMAIN s.obj THEN Strict(s.obj) ELSE s.obj
             map == OneOfToAnyOf(strict)
             One(val) == IF IsSchema(val) THEN Transform(val) ELSE val
             Each(val) == JArr([i \in 1..Len(val.arr) |-> One(val.arr[i])])
             Sub(key, val) ==
                 IF key \in SingleKeys THEN One(val)
                 ELSE IF key \in ArrayKeys
                 THEN (IF IsArr(val) THEN Each(val) ELSE val)
                 ELSE IF key = "items"
                 THEN (IF IsArr(val) THEN Each(val) ELSE One(val))
                 ELSE IF key \in MapKeys
                 THEN (IF IsObj(val)
                       THEN JObj([n \in DOMAIN val.obj |-> One(val.obj[n])])
                       ELSE val)
                 ELSE val
         IN  JObj([key \in DOMAIN map |-> Sub(key, map[key])])

\* Largest nesting depth of the schemas handed to the transform, and the
\* number of times it is applied to one schema.
MaxDepth == 2
MaxApplications == 2

RefTarget == JStr("#/$defs/T")
TypeOf(t) == "type" :> JStr(t)
StringSchema == JObj(TypeOf("string") @@ ("format" :> JStr("date")))

\* Schemas without subschemas: the boolean schema, a string with a format,
\* a bounded integer, a bare reference, a reference beside another keyword,
\* and objects that declare no properties.
LeafSchemas ==
    { JBool(TRUE),
      StringSchema,
      JObj(TypeOf("integer") @@ ("minimum" :> JNum(0)) @@ ("maximum" :> JNum(9))),
      JObj("$ref" :> RefTarget),
      JObj(("$ref" :> RefTarget) @@ ("format" :> JStr("date"))),
      JObj(TypeOf("object")),
      JObj(TypeOf("object") @@ ("required" :> JArr(<<JStr("z")>>))) }

\* What `required` may hold beside properties a and b: nothing, a part,
\* all of them in and out of order, a duplicate, an undeclared name.
RequiredLists ==
    { <<>>, <<JStr("a")>>, <<JStr("b"), JStr("a")>>, <<JStr("a"), JStr("b")>>,
      <<JStr("b"), JStr("a"), JStr("b")>>, <<JStr("a"), JStr("z")>> }

\* The schemas that hold the schema c as a subschema.
SchemasAround(c) ==
    LET PropertyMaps == { "a" :> c, ("b" :> c) @@ ("a" :> StringSchema) }
        Object(props) == TypeOf("object") @@ ("properties" :> JObj(props))
    IN  { JObj(Object(props)) : props \in PropertyMaps }
        \cup { JObj(Object(props) @@ ("required" :> JArr(req))) :
                   props \in PropertyMaps, req \in RequiredLists }
        \cup { JObj(TypeOf("array") @@ ("items" :> c)),
               JObj(TypeOf("array") @@ ("items" :> JArr(<<c>>))),
               JObj("oneOf" :> JArr(<<c, StringSchema>>)),
               JObj("anyOf" :> JArr(<<c>>)),
               JObj(("oneOf" :> JArr(<<c>>)) @@ ("anyOf" :> JArr(<<StringSchema>>))),
               JObj(Object("a" :> JObj("$ref" :> RefTarget)) @@ ("$defs" :> JObj("T" :> c))),
               JObj(("$ref" :> RefTarget) @@ ("definitions" :> JObj("T" :> c))),
               JObj(("$ref" :> RefTarget) @@ ("properties" :> JObj("a" :> c))),
               JObj(("$ref" :> RefTarget) @@ ("oneOf" :> JArr(<<StringSchema, c>>))),
               JObj("not" :> c) }

RECURSIVE SchemasOfDepth(_)
SchemasOfDepth(d) ==
    IF d = 0 THEN LeafSchemas
    ELSE LET below == SchemasOfDepth(d - 1)
         IN  below \cup UNION { SchemasAround(c) : c \in below }

\* Any schema of depth MaxDepth or less.
SchemaInit ==
    /\ \E c \in SchemasOfDepth(MaxDepth - 1) : schema \in {c} \cup SchemasAround(c)
    /\ schema_in = schema
    /\ schema_prev = schema
    /\ applied = 0

SchemaRest ==
    /\ schema = JBool(TRUE)
    /\ schema_in = JBool(TRUE)
    /\ schema_prev = JBool(TRUE)
    /\ applied = 0

\* transform(&mut schema)
ApplyTransform ==
    /\ applied < MaxApplications
    /\ schema_prev' = schema
    /\ schema' = Transform(schema)
    /\ applied' = applied + 1
    /\ UNCHANGED schema_in
    /\ UNCHANGED beside_schema

SchemaNext == ApplyTransform

---------------------------------------------------------------------------
(* ChatClient::chat_with_messages_raw, chat_cached and chat_uncached *)

\* The callers that use one client at the same time, and the calls they
\* make in all.
MaxCallers == 2
MaxChats == 3

Callers == 1..MaxCallers

\* LruCache::new(NonZeroUsize::new(1024).unwrap())
LruCapacity == 1024

\* serde_json::to_string(&chat_request): the cache key.
RequestKey(m, prompt) ==
    <<"{\"model\":", m, ",\"messages\":", prompt.messages,
      ",\"response_format\":", prompt.response_format, "}">>

\* A chat completion text with its choices' contents and its total_tokens.
ChatText(choices, tokens) ==
    [json |-> "chat", choices |-> choices, usage |-> tokens]

\* The texts the API may answer with: completions, one without choices, an
\* error payload, something else.
ResponseTexts ==
    { ChatText(<<"alpha">>, 3), ChatText(<<"beta", "gamma">>, 5),
      ChatText(<<>>, 1), ErrorBody, OtherBody }

\* LruCache::get: a hit makes the entry the most recently used.
LruGet(cache, key) ==
    LET hits == {i \in 1..Len(cache) : cache[i][1] = key}
    IN  IF hits = {} THEN [hit |-> FALSE, cache |-> cache]
        ELSE LET i == CHOOSE j \in hits : TRUE
             IN  [hit |-> TRUE, value |-> cache[i][2],
                  cache |-> <<cache[i]>> \o SubSeq(cache, 1, i - 1)
                            \o SubSeq(cache, i + 1, Len(cache))]

\* LruCache::put: the entry replaces one with the same key and becomes the
\* most recently used; beyond the capacity the least recently used goes.
LruPut(cache, key, val) ==
    LET others == SelectSeq(cache, LAMBDA e : e[1] # key)
        all == <<<<key, val>>>> \o others
    IN  IF Len(all) > LruCapacity THEN SubSeq(all, 1, LruCapacity) ELSE all

NoCall ==
    [pc |-> "idle", request |-> None, text |-> None, result |-> NoResult,
     called |-> FALSE, added |-> 0, after |-> {}, errs |-> {}]

\* ChatClient::new: an empty cache, no usage; no call made.
ChatInit ==
    /\ lru = <<>>
    /\ usage = 0
    /\ callers = [t \in Callers |-> NoCall]
    /\ answered = [p \in PromptSet |-> {}]
    /\ failed = [p \in PromptSet |-> {}]
    /\ chats = 0

ChatRest == ChatInit

\* The end of chat_with_messages_raw for a response text: the parse, the
\* match on ChatResponseOrError and choices.first().
ChatResult(text) ==
    LET r == ParseChatResponseOrError(text)
    IN  IF ~r.ok THEN [kind |-> "ApiParseError", response |-> text]
        ELSE IF r.value.variant = "Error"
        THEN [kind |-> "ApiError", error |-> r.value.error]
        ELSE LET choice == FirstChoice(r.value.choices)
             IN  IF ~choice.some THEN [kind |-> "NoChoices"]
                 ELSE [kind |-> "Ok", value |-> choice.value]

\* A caller calls chat_with_messages_raw.
StartChat ==
    /\ chats < MaxChats
    /\ \E t \in Callers, p \in PromptSet :
          /\ callers[t].pc \in {"idle", "returned"}
          /\ callers' = [callers EXCEPT ![t] =
                            [NoCall EXCEPT !.pc = "lookup", !.request = Some(p),
                                           !.after = answered[p],
                                           !.errs = failed[p]]]
    /\ chats' = chats + 1
    /\ UNCHANGED <<lru, usage, answered, failed>>
    /\ UNCHANGED beside_chat

\* chat_cached: lru.write(), lru.get(&chat_request).cloned()
chat_cached ==
    /\ \E t \in Callers :
          /\ callers[t].pc = "lookup"
          /\ LET got == LruGet(lru, RequestKey(model, callers[t].request.value))
             IN  /\ lru' = got.cache
                 /\ callers' = IF got.hit
                               THEN [callers EXCEPT ![t].pc = "cached",
                                                    ![t].text = Some(got.value)]
                               ELSE [callers EXCEPT ![t].pc = "send"]
    /\ UNCHANGED <<usage, answered, failed, chats>>
    /\ UNCHANGED beside_chat

\* chat_uncached: send() or text() fails; the `?`s return the error.
SendError ==
    /\ \E t \in Callers :
          /\ callers[t].pc = "send"
          /\ callers' = [callers EXCEPT ![t].pc = "returned",
                                        ![t].result = [kind |-> "RequestError"]]
    /\ UNCHANGED <<lru, usage, answered, failed, chats>>
    /\ UNCHANGED beside_chat

\* chat_uncached: the API answers with a text.
SendAnswered ==
    /\ \E t \in Callers, text \in ResponseTexts :
          /\ callers[t].pc = "send"
          /\ callers' = [callers EXCEPT ![t].pc = "put", ![t].text = Some(text),
                                        ![t].called = TRUE]
    /\ UNCHANGED <<lru, usage, answered, failed, chats>>
    /\ UNCHANGED beside_chat

\* chat_uncached: lru.write().put(chat_request, response.clone())
CachePut ==
    /\ \E t \in Callers :
          /\ callers[t].pc = "put"
          /\ lru' = LruPut(lru, RequestKey(model, callers[t].request.value),
                           callers[t].text.value)
          /\ callers' = [callers EXCEPT ![t].pc = "uncached"]
    /\ UNCHANGED <<usage, answered, failed, chats>>
    /\ UNCHANGED beside_chat

\* The else branch after chat_uncached: a completion adds its usage to the
\* client's, and the call returns.
ReturnUncached ==
    /\ \E t \in Callers :
          /\ callers[t].pc = "uncached"
          /\ LET text == callers[t].text.value
                 res == ChatResult(text)
                 tokens == IF res.kind \in {"Ok", "NoChoices"} THEN text.usage ELSE 0
             IN  /\ usage' = usage + tokens
                 /\ callers' = [callers EXCEPT ![t].pc = "returned",
                                               ![t].result = res,
                                               ![t].added = tokens]
                 /\ answered' =
                        IF res.kind = "Ok"
                        THEN [answered EXCEPT ![callers[t].request.value] =
                                                  @ \cup {res.value}]
                        ELSE answered
                 /\ failed' =
                        IF res.kind \in {"ApiError", "ApiParseError"}
                        THEN [failed EXCEPT ![callers[t].request.value] =
                                                @ \cup {res}]
                        ELSE failed
    /\ UNCHANGED <<lru, chats>>
    /\ UNCHANGED beside_chat

\* The branch of a cached response: the call returns, usage is left alone.
ReturnCached ==
    /\ \E t \in Callers :
          /\ callers[t].pc = "cached"
          /\ callers' = [callers EXCEPT ![t].pc = "returned",
                                        ![t].result = ChatResult(callers[t].text.value)]
    /\ UNCHANGED <<lru, usage, answered, failed, chats>>
    /\ UNCHANGED beside_chat

ChatNext ==
    \/ StartChat
    \/ chat_cached
    \/ SendError
    \/ SendAnswered
    \/ CachePut
    \/ ReturnUncached
    \/ ReturnCached

---------------------------------------------------------------------------
(* BatchClient::create_batch *)

\* The file ids a caller passes.
FileIds == {1, 2}

\* The metadata maps a caller passes: maps of its own, with and without the
\* key request_hash, and the map of a run.
CallerMaps ==
    {"name" :> <<"My Batch">>,
     "request_hash" :> <<"7">>,
     ("name" :> <<"My Batch">>) @@ ("request_hash" :> <<"7">>),
     RunMetadata(FranceDigest("gpt-4o"))}

\* The error payloads of the provider.
ErrorPayloads == {"invalid_request_error", "rate_limit_exceeded"}

\* A response body. Besides its text it is described by what serde_json
\* makes of it: the Batch it deserializes to, if it does, and the OpenAiError
\* it deserializes to, if it does.
Body(raw, as_batch, as_error) ==
    [raw |-> raw, batch |-> as_batch, error |-> as_error]

\* The job record the provider makes for a posted body.
JobRecord(body, st) ==
    [id |-> "batch_1", status |-> st, metadata |-> Some(body.metadata),
     input_file_id |-> body.input_file_id]

\* The bodies the provider may answer a posted body with: the record of the
\* new job, read by OpenAiError's deserializer as well or not; an error
\* payload; a body that is neither.
ResponseBodies(body) ==
    {Body("job", Some(JobRecord(body, st)), e) :
        st \in {"Validating", "Failed"},
        e \in {None} \cup {Some(x) : x \in ErrorPayloads}}
    \cup {Body("error", None, Some(x)) : x \in ErrorPayloads}
    \cup {Body(raw, None, None) : raw \in {"<html>502</html>", "{}"}}

\* serde_json::from_str::<Batch>(&response_text)
FromStrBatch(text) ==
    IF text.batch.some THEN [ok |-> TRUE, value |-> text.batch.value]
    ELSE [ok |-> FALSE, err |-> "serde_json::Error"]

\* serde_json::from_str::<OpenAiError>(&response_text)
FromStrOpenAiError(text) ==
    IF text.error.some THEN [ok |-> TRUE, value |-> text.error.value]
    ELSE [ok |-> FALSE, err |-> "serde_json::Error"]

\* A faulty variant: the body is read as an OpenAiError first.
CreateBatchResult_ErrorFirst(text) ==
    LET error == FromStrOpenAiError(text)
        parsed == FromStrBatch(text)
    IN  IF error.ok THEN [kind |-> "OpenAiError", error |-> error.value]
        ELSE IF parsed.ok THEN [kind |-> "Ok", batch |-> parsed.value]
        ELSE [kind |-> "JsonParseError", e |-> parsed.err, text |-> text]

\* The match on the parsed body: the Batch if the body is one, else the
\* OpenAiError if the body is one, else the first parse error with the text.
CreateBatchResult(text) ==
    LET parsed == FromStrBatch(text)
    IN  IF parsed.ok THEN [kind |-> "Ok", batch |-> parsed.value]
        ELSE LET error == FromStrOpenAiError(text)
             IN  IF error.ok
                 THEN [kind |-> "OpenAiError", error |-> error.value]
                 ELSE [kind |-> "JsonParseError", e |-> parsed.err,
                       text |-> text]

CreateInit ==
    /\ cpc = "idle"
    /\ create_args = None
    /\ posted = None
    /\ response_text = None
    /\ create_result = NoResult

CreateRest == CreateInit

\* create_batch(input_file_id, metadata), up to send(): the body is built.
CallCreateBatch ==
    /\ cpc = "idle"
    /\ \E f \in FileIds, m \in CallerMaps :
          /\ create_args' = Some([input_file_id |-> f, metadata |-> m])
          /\ posted' = Some(CreateBatchRequest(f, m))
    /\ cpc' = "send"
    /\ UNCHANGED <<response_text, create_result>>
    /\ UNCHANGED beside_create

\* send().await? fails: the reqwest::Error becomes RequestError.
CreateSendError ==
    /\ cpc = "send"
    /\ create_result' = [kind |-> "RequestError", e |-> "send"]
    /\ cpc' = "returned"
    /\ UNCHANGED <<create_args, posted, response_text>>
    /\ UNCHANGED beside_create

\* send().await? gives a response.
CreateSent ==
    /\ cpc = "send"
    /\ cpc' = "text"
    /\ UNCHANGED <<create_args, posted, response_text, create_result>>
    /\ UNCHANGED beside_create

\* response.text().await? fails: RequestError again.
CreateTextError ==
    /\ cpc = "text"
    /\ create_result' = [kind |-> "RequestError", e |-> "text"]
    /\ cpc' = "returned"
    /\ UNCHANGED <<create_args, posted, response_text>>
    /\ UNCHANGED beside_create

\* response.text().await? gives the body.
CreateText ==
    /\ cpc = "text"
    /\ \E t \in ResponseBodies(posted.value) : response_text' = Some(t)
    /\ cpc' = "parse"
    /\ UNCHANGED <<create_args, posted, create_result>>
    /\ UNCHANGED beside_create

\* The two parses and the match.
CreateParse ==
    /\ cpc = "parse"
    /\ create_result' = CreateBatchResult(response_text.value)
    /\ cpc' = "returned"
    /\ UNCHANGED <<create_args, posted, response_text>>
    /\ UNCHANGED beside_create

CreateNext ==
    \/ CallCreateBatch
    \/ CreateSendError
    \/ CreateSent
    \/ CreateTextError
    \/ CreateText
    \/ CreateParse

---------------------------------------------------------------------------
(* EmbeddingsClient::embed_fn (src/src/embeddings.rs) *)

MaxDocuments == 3
MaxBatchSize == 2

\* The documents a caller passes, and the sequences of them.
Docs == {"paris", "rome"}

DocumentLists == UNION {[1..n -> Docs] : n \in 0..MaxDocuments}

\* The batch sizes with_batch_size accepts: any usize, zero among them.
BatchSizes == 0..MaxBatchSize

\* f, the caller's map from a document to the text that is embedded.
f(t) == <<"About ", t>>

\* The embeddings of a response: the vector and the index the provider
\* gives it.
Embedding(e, index) == [embedding |-> e, index |-> index]

Vector(elements) == [elements |-> elements]

\* The vectors the provider answers with.
Floats == {<<1>>, <<2>>}

\* The `data` of a response: any vectors, their indices going up from zero
\* or going down to zero.
DataOf(es, reversed) ==
    [j \in 1..Len(es) |->
        Embedding(es[j], IF reversed THEN Len(es) - j ELSE j - 1)]

\* An EmbeddingsResponse; model and usage are not looked at.
EmbeddingsResponse(data) == [data |-> data]

\* The texts the provider may answer a request of k inputs with: a response
\* of fewer, as many or one more embeddings, an error object, and a text
\* that is neither.
EmbeddingsTexts(k) ==
    {[raw |-> "data", data |-> DataOf(es, reversed)] :
        es \in UNION {[1..n -> Floats] : n \in 0..(k + 1)},
        reversed \in BOOLEAN}
    \cup {[raw |-> "error", error |-> x] : x \in ErrorPayloads}
    \cup {[raw |-> "<html>502</html>"]}

\* serde_json::from_str::<EmbeddingsResponseOrError>(&response_text): an
\* object with the key error is the Error variant, an object that reads as
\* an EmbeddingsResponse is the Response variant, anything else fails.
FromStrEmbeddings(text) ==
    IF text.raw = "error"
    THEN [ok |-> TRUE, variant |-> "Error", error |-> text.error]
    ELSE IF text.raw = "data"
    THEN [ok |-> TRUE, variant |-> "Response",
          response |-> EmbeddingsResponse(text.data)]
    ELSE [ok |-> FALSE, err |-> "serde_json::Error"]

\* The next chunk of itertools' chunks(batch_size): the documents after the
\* ones taken, up to batch_size of them.
Chunk ==
    SubSeq(documents, position + 1,
           IF position + batch_size < Len(documents)
           THEN position + batch_size ELSE Len(documents))

\* data.into_iter().zip(embeddings_response.data.into_iter().map(..)): pairs
\* up to the shorter of the two.
Zip(data, embeddings) ==
    [j \in 1..(IF Len(data) < Len(embeddings) THEN Len(data)
               ELSE Len(embeddings)) |->
        <<data[j], Vector(embeddings[j].embedding)>>]

EmbedInit ==
    /\ epc = "idle"
    /\ documents \in DocumentLists
    /\ batch_size \in BatchSizes
    /\ position = 0
    /\ embed_sent = <<>>
    /\ replies = <<>>
    /\ all_embeddings = <<>>
    /\ embed_result = [kind |-> "none"]

\* embed_fn is not called.
EmbedRest ==
    /\ epc = "idle"
    /\ documents = <<>>
    /\ batch_size = 1
    /\ position = 0
    /\ embed_sent = <<>>
    /\ replies = <<>>
    /\ all_embeddings = <<>>
    /\ embed_result = [kind |-> "none"]

\* embed_fn up to the for loop. chunks(0) panics.
CallEmbedFn ==
    /\ epc = "idle"
    /\ embed_result.kind = "none"
    /\ IF batch_size = 0
       THEN /\ epc' = "returned"
            /\ embed_result' = [kind |-> "panic"]
       ELSE /\ epc' = "chunk"
            /\ UNCHANGED embed_result
    /\ UNCHANGED <<documents, batch_size, position, embed_sent, replies,
                   all_embeddings>>
    /\ UNCHANGED beside_embed

\* The head of the for loop with a chunk left: the request is built from the
\* chunk and posted.
EmbedSend ==
    /\ epc = "chunk"
    /\ position < Len(documents)
    /\ embed_sent' = Append(embed_sent, [j \in 1..Len(Chunk) |-> f(Chunk[j])])
    /\ epc' = "send"
    /\ UNCHANGED <<documents, batch_size, position, replies, all_embeddings,
                   embed_result>>
    /\ UNCHANGED beside_embed

\* The head of the for loop with no chunk left: Ok(all_embeddings).
EmbedReturnOk ==
    /\ epc = "chunk"
    /\ position = Len(documents)
    /\ epc' = "returned"
    /\ embed_result' = [kind |-> "Ok", value |-> all_embeddings]
    /\ UNCHANGED <<documents, batch_size, position, embed_sent, replies,
                   all_embeddings>>
    /\ UNCHANGED beside_embed

\* send().await? or text().await? fails.
EmbedRequestError ==
    /\ epc = "send"
    /\ \E e \in {"send", "text"} :
          embed_result' = [kind |-> "RequestError", e |-> e]
    /\ epc' = "returned"
    /\ UNCHANGED <<documents, batch_size, position, embed_sent, replies,
                   all_embeddings>>
    /\ UNCHANGED beside_embed

\* A faulty variant: a response is taken whenever it holds enough embeddings.
EmbedAnswered_AtLeast ==
    /\ epc = "send"
    /\ \E text \in EmbeddingsTexts(Len(Chunk)) :
          LET parsed == FromStrEmbeddings(text)
          IN  /\ replies' = Append(replies, text)
              /\ IF ~parsed.ok
                 THEN /\ embed_result' = [kind |-> "ApiParseError",
                                          text |-> text, e |-> parsed.err]
                      /\ epc' = "returned"
                      /\ UNCHANGED <<position, all_embeddings>>
                 ELSE IF parsed.variant = "Error"
                 THEN /\ embed_result' = [kind |-> "ApiError",
                                          error |-> parsed.error]
                      /\ epc' = "returned"
                      /\ UNCHANGED <<position, all_embeddings>>
                 ELSE IF Len(parsed.response.data) < Len(Chunk)
                 THEN /\ embed_result' =
                            [kind |-> "IncorrectNumberOfEmbeddings"]
                      /\ epc' = "returned"
                      /\ UNCHANGED <<position, all_embeddings>>
                 ELSE /\ all_embeddings' =
                            all_embeddings \o Zip(Chunk, parsed.response.data)
                      /\ position' = position + Len(Chunk)
                      /\ epc' = "chunk"
                      /\ UNCHANGED embed_result
    /\ UNCHANGED <<documents, batch_size, embed_sent>>
    /\ UNCHANGED beside_embed

\* The response text is read: a text that does not parse, an error object
\* and a response with another number of embeddings than inputs each end
\* embed_fn; any other response is zipped with the chunk and the loop goes on.
EmbedAnswered ==
    /\ epc = "send"
    /\ \E text \in EmbeddingsTexts(Len(Chunk)) :
          LET parsed == FromStrEmbeddings(text)
          IN  /\ replies' = Append(replies, text)
              /\ IF ~parsed.ok
                 THEN /\ embed_result' = [kind |-> "ApiParseError",
                                          text |-> text, e |-> parsed.err]
                      /\ epc' = "returned"
                      /\ UNCHANGED <<position, all_embeddings>>
                 ELSE IF parsed.variant = "Error"
                 THEN /\ embed_result' = [kind |-> "ApiError",
                                          error |-> parsed.error]
                      /\ epc' = "returned"
                      /\ UNCHANGED <<position, all_embeddings>>
                 ELSE IF Len(parsed.response.data) # Len(Chunk)
                 THEN /\ embed_result' =
                            [kind |-> "IncorrectNumberOfEmbeddings"]
                      /\ epc' = "returned"
                      /\ UNCHANGED <<position, all_embeddings>>
                 ELSE /\ all_embeddings' =
                            all_embeddings \o Zip(Chunk, parsed.response.data)
                      /\ position' = position + Len(Chunk)
                      /\ epc' = "chunk"
                      /\ UNCHANGED embed_result
    /\ UNCHANGED <<documents, batch_size, embed_sent>>
    /\ UNCHANGED beside_embed

EmbedNext ==
    \/ CallEmbedFn
    \/ EmbedSend
    \/ EmbedReturnOk
    \/ EmbedRequestError
    \/ EmbedAnswered

---------------------------------------------------------------------------
(* The specifications *)

WaitNext ==
    \/ PollError
    \/ PollTerminal
    \/ PollNonTerminal
    \/ Sleep
    \/ SpinToWrap

\* wait_for_batch against a provider that answers each poll as it likes.
InitWait == WaitInit /\ PlanInit /\ ResRest /\ SchemaRest /\ ChatRest /\ CreateRest
    /\ EmbedRest

SpecWait == InitWait /\ [][WaitNext]_vars

\* One run of batch_chat_with_messages_raw against any listing of jobs that
\* other clients made.
InitPlan == PlanInit /\ WaitRest /\ ResRest /\ SchemaRest /\ ChatRest /\ CreateRest
    /\ EmbedRest

SpecPlan == InitPlan /\ [][PlanNext]_vars

\* Runs of batch_chat_with_messages_raw one after the other, each finding
\* the jobs the earlier ones created.
SpecRerun == InitPlan /\ [][RerunNext]_vars

\* list_batches, called at the start of a run, against any pages.
SpecList == InitPlan /\ [][ListNext]_vars

\* get_batch_results called with any job, and what batch_chat_with_messages_raw
\* makes of its answer.
InitResults == PlanInit /\ WaitRest /\ ResInit /\ SchemaRest /\ ChatRest /\ CreateRest
    /\ EmbedRest

SpecResults == InitResults /\ [][ResNext]_vars

\* One whole run of batch_chat_with_messages_raw of one client.
InitBatch ==
    PlanInit /\ model = "gpt-4o" /\ WaitRest /\ ResRest /\ SchemaRest /\ ChatRest
    /\ CreateRest /\ EmbedRest

SpecBatch == InitBatch /\ [][BatchNext]_vars

\* Callers of chat_with_messages_raw on one client, at the same time.
InitChat ==
    ChatInit /\ PlanInit /\ model = "gpt-4o" /\ WaitRest /\ ResRest /\ SchemaRest
    /\ CreateRest /\ EmbedRest

SpecChat == InitChat /\ [][ChatNext]_vars

\* OpenAiTransform::transform applied, more than once, to any schema.
InitSchema ==
    SchemaInit /\ PlanInit /\ model = "gpt-4o" /\ WaitRest /\ ResRest /\ ChatRest
    /\ CreateRest /\ EmbedRest

SpecSchema == InitSchema /\ [][SchemaNext]_vars

\* create_batch called with any file id and metadata map, the provider
\* answering as it likes.
InitCreate ==
    CreateInit /\ PlanInit /\ model = "gpt-4o" /\ WaitRest /\ ResRest /\ SchemaRest
    /\ ChatRest /\ EmbedRest

SpecCreate == InitCreate /\ [][CreateNext]_vars

\* embed_fn called with any documents and batch size, the provider
\* answering each request as it likes.
InitEmbed ==
    EmbedInit /\ PlanInit /\ model = "gpt-4o" /\ WaitRest /\ ResRest /\ SchemaRest
    /\ ChatRest /\ CreateRest

SpecEmbed == InitEmbed /\ [][EmbedNext]_vars

---------------------------------------------------------------------------
(* Claims about wait_for_batch, checked under SpecWait *)

\* The value of a u32 that is below 2^16.
U32Small(a) == a[2]

\* C1: when every poll answers with a non-terminal status, wait_for_batch
\* ends with BatchTimeout and in no other way. A run that has ended while the
\* last fetched status is non-terminal, and not on a get-status error, saw
\* only non-terminal statuses.
C1_TimeoutIsTheOnlyExit ==
    (wpc = "done" /\ batch.status \in NonTerminal
        /\ wait_result.kind # "GetBatchStatusError")
    => wait_result.kind = "BatchTimeout"

\* C2: the sleep that follows the k-th consecutive non-terminal observation
\* lasts min(120, 2^k) seconds: 2, 4, 8, 16, 32, 64, then 120. Until
\* `attempts` wraps, k is the value of `attempts`; after it, k is above 2^32.
C2_DelaySchedule ==
    wpc = "sleep" =>
        delay = IF ~wrapped /\ attempts[1] = 0 /\ U32Small(attempts) < 7
                THEN 2^U32Small(attempts)
                ELSE MaxDelay

C4_StatusDecidesOutcome ==
    /\ wpc # "done" => batch.status \in NonTerminal \cup {"none"}
    /\ wait_result.kind = "Ok" =>
          /\ wait_result.batch = batch
          /\ wait_result.batch.status = "Completed"
    /\ (wpc = "done" /\ batch.status = "Completed") =>
          wait_result = [kind |-> "Ok", batch |-> batch]
    /\ (wpc = "done" /\ batch.status = "Failed") =>
          wait_result =
             [kind |-> "BatchFailed", id |-> batch_id,
              error |-> IF batch.errors.some
                        THEN <<"\"", batch.errors.value.text, "\"">>
                        ELSE <<"null">>]
    /\ (wpc = "done" /\ batch.status = "Expired") =>
          wait_result = [kind |-> "BatchExpired", id |-> batch_id]
    /\ (wpc = "done" /\ batch.status \in {"Cancelled", "Cancelling"}) =>
          wait_result = [kind |-> "BatchCancelled", id |-> batch_id]

\* C4 witness: a job seen Failed with payload "rate limited" at a later poll.
C4_FailedRateLimited ==
    /\ wpc = "done"
    /\ attempts # U32Zero
    /\ wait_result.kind = "BatchFailed"
    /\ wait_result.id = batch_id
    /\ wait_result.error = <<"\"", "rate limited", "\"">>

---------------------------------------------------------------------------
(* Claims about the planner, checked under SpecPlan and SpecRerun *)

\* qs holds each request as many times as ps does.
IsPermutation(qs, ps) ==
    /\ Len(qs) = Len(ps)
    /\ \A p \in PromptSet :
          Cardinality({i \in 1..Len(qs) : qs[i] = p}) =
              Cardinality({i \in 1..Len(ps) : ps[i] = p})


\* The digest of each request list under each model.
DigestOfList ==
    [ps \in PromptLists, m \in Models |->
        SubmissionDigest([i \in 1..Len(ps) |-> RequestHashAt(ps, i, m)])]

\* The decimal text of the hash of each request under each model.
FingerprintText ==
    [p \in PromptSet, m \in Models |->
        U64ToString(const_xxh3(AsBytes(RequestStr(p, m))))]

CallsOf(op) == {k \in 1..Len(calls) : calls[k].op = op}

\* A job the claims call reusable for digest h: validating, in_progress or
\* completed, with the decimal text of h under request_hash.
ClaimedReusable(b, h) ==
    /\ b.status \in {"Validating", "InProgress", "Completed"}
    /\ b.metadata.some
    /\ "request_hash" \in DOMAIN b.metadata.value
    /\ b.metadata.value["request_hash"] = U64ToString(h)

ForeignListing == SelectSeq(jobs, LAMBDA j : j.origin = "foreign")

\* C5: the digest a run computes for its request list is the digest of
\* every permutation of that list.
C5_DigestIgnoresOrder ==
    pc # "idle" =>
        \A qs \in PromptLists :
            IsPermutation(qs, prompts) =>
                DigestOfList[qs, model] = request_hash

\* C5 witness: a run for two different requests whose hashes sum past 2^64,
\* with the digest of the list in the other order.
C5_TwoRequestsSwapped ==
    /\ pc = "list"
    /\ Len(prompts) = 2
    /\ prompts[1] # prompts[2]
    /\ request_hash = DigestOfList[<<prompts[2], prompts[1]>>, model]
    /\ request_hash[4] < RequestHashAt(prompts, 1, model)[4]

\* C6: the hash and the custom id of a request are those of the same request
\* submitted alone: "request-" and the decimal text of the hash of its
\* (messages, response format, model); equal requests of a batch get equal
\* ids, and each request item carries the id of its position.
C6_FingerprintOfContentOnly ==
    pc # "idle" =>
        /\ Len(custom_ids) = Len(prompts)
        /\ Len(requests) = Len(prompts)
        /\ \A i \in 1..Len(prompts) :
              /\ custom_ids[i] =
                    <<"request-">> \o FingerprintText[prompts[i], model]
              /\ requests[i].custom_id = custom_ids[i]
              /\ \A j \in 1..Len(prompts) :
                    prompts[i] = prompts[j] => custom_ids[i] = custom_ids[j]

\* C6 witness: the same request at both positions of a batch, with one id.
C6_SameRequestTwice ==
    /\ pc = "list"
    /\ Len(prompts) = 2
    /\ prompts[1] = prompts[2]
    /\ custom_ids[1] = custom_ids[2]
    /\ Head(custom_ids[2]) = "request-"
    /\ Len(custom_ids[2]) > 1

\* C7: a listed job is reused only if it is validating, in_progress or
\* completed and its request_hash is the decimal text of the run's digest;
\* a run that reuses a job makes no upload and no create call.
C7_ReuseOnlyActiveMatching ==
    (plan_batch.some /\ plan_batch.value.origin = "foreign") =>
        /\ ClaimedReusable(plan_batch.value, request_hash)
        /\ \E k \in 1..Len(all_batches) : all_batches[k] = plan_batch.value
        /\ CallsOf("upload") = {}
        /\ CallsOf("create") = {}
        /\ pc = "wait"

\* C7 witness: a job in validation is reused out of a listing that also
\* holds a job without metadata.
C7_ReusedValidatingJob ==
    /\ pc = "wait"
    /\ plan_batch.some
    /\ plan_batch.value.status = "Validating"
    /\ CallsOf("create") = {}
    /\ \E k \in 1..Len(all_batches) : ~all_batches[k].metadata.some

\* C8: without a reusable job in the listing the run uploads one blob and
\* then creates one job from the uploaded file; the blob is one JSON record
\* {custom_id, method, url, body} and a newline per request, in order.
C8_OneUploadOneCreate ==
    /\ Cardinality(CallsOf("upload")) <= 1
    /\ Cardinality(CallsOf("create")) <= 1
    /\ \A k \in CallsOf("create") :
          /\ k > 1
          /\ calls[k - 1].op = "upload"
          /\ calls[k].input_file_id = Len(files)
          /\ files[calls[k].input_file_id] = "batch_request"
    /\ \A k \in CallsOf("upload") :
          LET blob == calls[k].content
          IN  /\ Len(blob) = 2 * Len(prompts)
              /\ \A i \in 1..Len(prompts) :
                    /\ blob[2 * i] = "\n"
                    /\ blob[2 * i - 1].json = "object"
                    /\ blob[2 * i - 1].fields =
                          <<<<"custom_id", custom_ids[i]>>, <<"method", "POST">>,
                            <<"url", "/v1/chat/completions">>,
                            <<"body", [model |-> model,
                                       messages |-> prompts[i].messages,
                                       response_format |->
                                           prompts[i].response_format]>>>>
    /\ (pc = "wait" /\ ~\E k \in 1..Len(all_batches) :
                            ClaimedReusable(all_batches[k], request_hash)) =>
          /\ Cardinality(CallsOf("upload")) = 1
          /\ Cardinality(CallsOf("create")) = 1
          /\ plan_batch.some
          /\ plan_batch.value.origin = "run"
          /\ plan_batch.value.input_file_id = Len(files)
          /\ jobs[1] = plan_batch.value

\* C8 witness: two requests, no job listed: a blob of two lines, one job.
C8_TwoRequestsTwoLines ==
    /\ pc = "wait"
    /\ Len(prompts) = 2
    /\ all_batches = <<>>
    /\ Len(calls) = 3
    /\ calls[2].op = "upload"
    /\ Len(calls[2].content) = 4
    /\ calls[2].content[2] = "\n"
    /\ calls[2].content[4] = "\n"
    /\ calls[3].op = "create"
    /\ Len(jobs) = 1

\* C9: a run for a request set that already has a job in validating,
\* in_progress, finalizing or completed makes no upload and no create call,
\* so no two such jobs carry the same digest.
C9_NoSecondJobForTheSet ==
    /\ pc \in {"upload", "create"} =>
          ~\E k \in 1..Len(jobs) :
              /\ jobs[k].status \in
                    {"Validating", "InProgress", "Finalizing", "Completed"}
              /\ jobs[k].metadata = Some(RunMetadata(request_hash))
    /\ \A i, j \in 1..Len(jobs) :
          (i # j /\ jobs[i].metadata = jobs[j].metadata) =>
              ~({jobs[i].status, jobs[j].status} \subseteq
                    {"Validating", "InProgress", "Finalizing", "Completed"})

\* C10: upload and create come after the last list call, by which every job
\* of the provider has been fetched, page after page; a reusable job on any
\* page is found and nothing is uploaded or created.
C10_ListedToTheEnd ==
    /\ \A i, j \in 1..Len(calls) :
          (i < j /\ calls[i].op \in {"upload", "create"}) => calls[j].op # "list"
    /\ pc \in {"upload", "create", "wait"} => all_batches = ForeignListing
    /\ (CallsOf("upload") # {} \/ CallsOf("create") # {}) =>
          all_batches = ForeignListing
    /\ (pc \in {"upload", "create", "wait"}
          /\ \E k \in 1..Len(ForeignListing) :
                ClaimedReusable(ForeignListing[k], request_hash)) =>
          /\ pc = "wait"
          /\ plan_batch.some
          /\ ClaimedReusable(plan_batch.value, request_hash)
          /\ CallsOf("upload") = {}
          /\ CallsOf("create") = {}
          /\ Len(jobs) = Len(ForeignListing)

\* C10 witness: the matching job is on the second of three pages.
C10_FoundOnMiddlePage ==
    /\ pc = "wait"
    /\ Len(calls) = 3
    /\ Len(all_batches) = 3
    /\ plan_batch = Some(all_batches[2])
    /\ calls[2].after = Some(all_batches[1].id)
    /\ calls[3].after = Some(all_batches[2].id)

---------------------------------------------------------------------------
(* Claims about get_batch_results and the reconciliation, checked under
   SpecResults *)

\* The run got the items of the output file and has returned.
Reconciled == rpc = "returned" /\ get_result.kind = "Ok"

\* The positions of the result items that carry custom id `id`.
LinesFor(id) ==
    {k \in 1..Len(get_result.items) : get_result.items[k].custom_id = id}

\* The greatest element of a non-empty set of numbers.
Latest(S) == CHOOSE k \in S : \A j \in S : j <= k

\* The item is a chat completion without error field.
IsSuccess(item) ==
    /\ ~item.error.some
    /\ item.response.some
    /\ item.response.value.body.json = "chat"

HasChoice(item) == IsSuccess(item) /\ item.response.value.body.choices # <<>>

\* Every result item is a success with a choice or carries an error.
PayloadsAndErrors ==
    \A k \in 1..Len(get_result.items) :
        HasChoice(get_result.items[k]) \/ get_result.items[k].error.some

\* Every result item is a success, with or without choices.
OnlySuccesses ==
    \A k \in 1..Len(get_result.items) : IsSuccess(get_result.items[k])

\* C11: the reconciliation returns one outcome per submitted request, in
\* submission order, whatever results are present, missing or erroneous.
C11_OneOutcomePerRequest ==
    (Reconciled /\ PayloadsAndErrors) =>
        /\ "values" \in DOMAIN rec_result
        /\ Len(rec_result.values) = Len(rec_ids)

\* C12: one item with a populated error field among items with successful
\* responses does not make the whole call fail with that item's error.
C12_ItemErrorIsolated ==
    (/\ Reconciled
     /\ Len(get_result.items) >= 2
     /\ \E k \in 1..Len(get_result.items) :
           /\ get_result.items[k].error.some
           /\ \A j \in 1..Len(get_result.items) :
                 j # k =>
                    /\ HasChoice(get_result.items[j])
                    /\ get_result.items[j].custom_id #
                          get_result.items[k].custom_id)
    => rec_result.kind # "BatchItemError"

\* C13: when every result item is a success with a choice and every
\* submitted id has an item, the run returns Ok with one string per request
\* and the i-th string is the first choice of the item of the i-th id (of the
\* latest one when several items carry the id), in whatever order the items
\* come.
C13_FirstChoicePerRequest ==
    /\ (Reconciled /\ rec_result.kind = "Ok") =>
          Len(rec_result.values) = Len(rec_ids)
    /\ (/\ Reconciled
        /\ \A k \in 1..Len(get_result.items) : HasChoice(get_result.items[k])
        /\ \A i \in 1..Len(rec_ids) : LinesFor(rec_ids[i]) # {})
       => /\ rec_result.kind = "Ok"
          /\ Len(rec_result.values) = Len(rec_ids)
          /\ \A i \in 1..Len(rec_ids) :
                rec_result.values[i] =
                    Head(get_result.items[Latest(LinesFor(rec_ids[i]))]
                            .response.value.body.choices)

\* C13 witness: two requests whose results come in the opposite order, one
\* of them with two choices.
C13_ResultsInReverseOrder ==
    /\ Reconciled
    /\ Len(rec_ids) = 2
    /\ Len(get_result.items) = 2
    /\ get_result.items[1].custom_id = rec_ids[2]
    /\ get_result.items[2].custom_id = rec_ids[1]
    /\ rec_ids[1] # rec_ids[2]
    /\ rec_result = [kind |-> "Ok", values |-> <<"alpha", "beta">>]

\* C14: a submitted id without result item is reported as CustomIdNotFound
\* with that id, and a submitted id whose item is a success without choices
\* as BatchNoChoices with that id.
C14_MissingIdReported ==
    (Reconciled /\ OnlySuccesses) =>
        \A i \in 1..Len(rec_ids) :
            /\ LinesFor(rec_ids[i]) = {} =>
                  rec_result =
                      [kind |-> "CustomIdNotFound", custom_id |-> rec_ids[i]]
            /\ (/\ LinesFor(rec_ids[i]) # {}
                /\ \A k \in LinesFor(rec_ids[i]) :
                      /\ IsSuccess(get_result.items[k])
                      /\ ~HasChoice(get_result.items[k]))
               => rec_result =
                      [kind |-> "BatchNoChoices", custom_id |-> rec_ids[i]]

\* C15: for a job that is not Completed get_batch_results returns
\* BatchNotCompleted with the job's status and downloads nothing, with or
\* without an output file id.
C15_NotCompletedFirst ==
    (res_batch.status # "Completed" /\ rpc \notin {"idle", "status"}) =>
        /\ rpc = "returned"
        /\ get_result =
              [kind |-> "BatchNotCompleted", status |-> res_batch.status]
        /\ downloads = 0

\* C15 witness: a job that is finalizing and has an output file id.
C15_FinalizingWithOutputFile ==
    /\ rpc = "returned"
    /\ res_batch.status = "Finalizing"
    /\ res_batch.output_file_id.some
    /\ get_result.kind = "BatchNotCompleted"

\* C16: for a Completed job without output file id get_batch_results returns
\* BatchNoOutputFile with the job id, which is neither BatchNotCompleted nor
\* a list of results, and downloads nothing.
C16_NoOutputFileIsItsOwnError ==
    (/\ res_batch.status = "Completed"
     /\ ~res_batch.output_file_id.some
     /\ rpc \notin {"idle", "status", "file"})
    => /\ rpc = "returned"
       /\ get_result = [kind |-> "BatchNoOutputFile", id |-> res_batch.id]
       /\ rec_result.kind = "GetBatchResultsError"
       /\ downloads = 0

\* C16 witness: a Completed job without output file id has been answered.
C16_CompletedWithoutFile ==
    /\ rpc = "returned"
    /\ res_batch.status = "Completed"
    /\ ~res_batch.output_file_id.some
    /\ get_result.kind = "BatchNoOutputFile"

\* C17: once the downloaded text has been gone through, the answer is
\* JsonParseError without any item if some line does not parse, and else
\* the items of the lines, one per line, in the order of the file.
C17_AllLinesOrNone ==
    (downloads = 1 /\ rpc \notin {"download", "parse"}
        /\ get_result.kind # "DownloadFileError")
    => LET ls == Lines(content)
       IN  IF \E k \in 1..Len(ls) : ~FromStrItem(ls[k]).ok
           THEN /\ get_result = [kind |-> "JsonParseError", content |-> content]
                /\ rec_result = FromGetBatchResultsError(get_result)
           ELSE /\ get_result.kind = "Ok"
                /\ Len(get_result.items) = Len(ls)
                /\ \A k \in 1..Len(ls) : <<JsonText(get_result.items[k])>> = ls[k]

\* C17 witness: the second line does not parse after the first one did.
C17_SecondLineBad ==
    /\ rpc = "returned"
    /\ get_result.kind = "JsonParseError"
    /\ Len(results) = 1
    /\ Len(Lines(content)) = 2

---------------------------------------------------------------------------
(* Claims about OpenAiTransform::transform, checked under SpecSchema *)

\* The subschemas directly under a node: property schemas, array items,
\* definitions and the branches of combinators.
ChildrenOf(n) ==
    LET map == n.obj
        Under(key) ==
            IF key \notin DOMAIN map THEN {}
            ELSE IF IsArr(map[key])
            THEN {map[key].arr[i] : i \in 1..Len(map[key].arr)}
            ELSE {map[key]}
        In(key) ==
            IF key \in DOMAIN map /\ IsObj(map[key])
            THEN {map[key].obj[x] : x \in DOMAIN map[key].obj}
            ELSE {}
    IN  Under("items") \cup Under("anyOf") \cup Under("oneOf")
        \cup Under("allOf") \cup Under("not")
        \cup In("properties") \cup In("$defs") \cup In("definitions")

\* Every object-valued node of a schema, at every depth.
RECURSIVE NodesOf(_)
NodesOf(s) ==
    IF ~IsObj(s) THEN {}
    ELSE {s} \cup UNION {NodesOf(c) : c \in ChildrenOf(s)}

DeclaredNames(n) ==
    IF "properties" \in DOMAIN n.obj /\ IsObj(n.obj["properties"])
    THEN DOMAIN n.obj["properties"].obj
    ELSE {}

\* The `required` array of a node; a node without one requires nothing.
RequiredOf(n) ==
    IF "required" \in DOMAIN n.obj THEN n.obj["required"].arr ELSE <<>>

EachOnceSorted(req, names) ==
    /\ Len(req) = Cardinality(names)
    /\ {req[i] : i \in 1..Len(req)} = {JStr(x) : x \in names}
    /\ \A i, j \in 1..Len(req) : i < j => AsStrRank(req[i]) < AsStrRank(req[j])

BareReference(n) == DOMAIN n.obj = {"$ref"}

\* C18: the transform is idempotent: applied to its own output it leaves
\* the schema as it is.
C18_Idempotent ==
    applied >= 2 => schema = schema_prev

\* C18, its case: a schema with a oneOf that the first application changed
\* has gone through the transform twice.
C18_TwiceOverOneOf ==
    /\ applied = 2
    /\ IsObj(schema_in)
    /\ "oneOf" \in DOMAIN schema_in.obj
    /\ schema_prev # schema_in
    /\ \E n \in NodesOf(schema_in) :
           "required" \in DOMAIN n.obj /\ n.obj["required"] # JArr(SortByStr(RequiredOf(n)))

\* C19: after the transform the `required` array of every node that is not
\* a reference holds exactly the names declared under `properties`, each
\* once, in lexicographic order, whatever it held before.
C19_RequiredIsThePropertySet ==
    applied >= 1 =>
        \A n \in NodesOf(schema) :
            "$ref" \notin DOMAIN n.obj => EachOnceSorted(RequiredOf(n), DeclaredNames(n))

\* C20: after the transform every object-valued node that is not a bare
\* reference, at every depth, has additionalProperties = false and none of
\* minimum, maximum and format; a node holding $ref beside other keywords
\* is such a node.
C20_EveryNodeStrict ==
    applied >= 1 =>
        \A n \in NodesOf(schema) :
            ~BareReference(n) =>
                /\ "additionalProperties" \in DOMAIN n.obj
                /\ n.obj["additionalProperties"] = JBool(FALSE)
                /\ DOMAIN n.obj \cap {"minimum", "maximum", "format"} = {}

\* C21: after the transform no node holds oneOf, and every node that held
\* oneOf, a node with $ref included, holds anyOf with the transformed
\* oneOf branches in their order.
C21_OneOfBecomesAnyOf ==
    applied >= 1 =>
        /\ \A n \in NodesOf(schema) : "oneOf" \notin DOMAIN n.obj
        /\ \A n \in NodesOf(schema_in) :
               ("oneOf" \in DOMAIN n.obj /\ IsArr(n.obj["oneOf"])) =>
                   \E m \in NodesOf(schema) :
                       /\ m = Transform(n)
                       /\ "anyOf" \in DOMAIN m.obj
                       /\ m.obj["anyOf"] =
                              JArr([i \in 1..Len(n.obj["oneOf"].arr) |->
                                        Transform(n.obj["oneOf"].arr[i])])

\* C21, its cases: a node with $ref and a two-branch oneOf, and a node
\* that had both oneOf and anyOf, have been transformed.
C21_ReferenceWithOneOf ==
    /\ applied = 1
    /\ \E n \in NodesOf(schema_in) :
           /\ {"$ref", "oneOf"} \subseteq DOMAIN n.obj
           /\ \E c \in NodesOf(n.obj["oneOf"].arr[2]) : "oneOf" \in DOMAIN c.obj
    /\ \E n \in NodesOf(schema) :
           "$ref" \in DOMAIN n.obj /\ "anyOf" \in DOMAIN n.obj /\ Len(n.obj["anyOf"].arr) = 2

---------------------------------------------------------------------------
(* Claims about a whole run, checked under SpecBatch *)

RunJobs == {k \in 1..Len(jobs) : jobs[k].origin = "run"}

NotPolled == batch_id = "" /\ wait_result = NoResult /\ batch = NoBatch

\* C22: no collaborator call is tried again. A run uploads, creates and
\* downloads at most once and lists no page twice; a failed list, upload,
\* create, get-status or download gives the error of its kind, is the last
\* call of the run, and the calls that would follow it are not made.
C22_FailedCallEndsTheRun ==
    /\ Cardinality(CallsOf("upload")) <= 1
    /\ Cardinality(CallsOf("create")) <= 1
    /\ downloads <= 1
    /\ \A i, j \in CallsOf("list") : i # j => calls[i].after # calls[j].after
    /\ run_result.kind = "ListBatchesError" =>
          /\ pc = "returned"
          /\ calls[Len(calls)].op = "list"
          /\ CallsOf("upload") = {} /\ CallsOf("create") = {}
          /\ NotPolled /\ downloads = 0
    /\ run_result.kind = "FileUploadError" =>
          /\ pc = "returned"
          /\ calls[Len(calls)].op = "upload"
          /\ CallsOf("create") = {} /\ RunJobs = {}
          /\ NotPolled /\ downloads = 0
    /\ run_result.kind = "CreateBatchError" =>
          /\ pc = "returned"
          /\ calls[Len(calls)].op = "create"
          /\ RunJobs = {}
          /\ NotPolled /\ downloads = 0
    /\ wait_result.kind = "GetBatchStatusError" =>
          /\ pc \in {"waiting", "returned"}
          /\ wpc = "done"
          /\ pc = "returned" => run_result = [kind |-> "WaitForBatchError",
                                              error |-> wait_result]
          /\ rpc = "idle" /\ downloads = 0
    /\ get_result.kind = "DownloadFileError" =>
          /\ pc \in {"results", "returned"}
          /\ rpc = "returned"
          /\ pc = "returned" => run_result = [kind |-> "GetBatchResultsError",
                                              error |-> get_result]
          /\ downloads = 1 /\ wpc = "done"

\* C22, its case: the download failed for a job the run created and saw
\* completed, and the run has returned.
C22_DownloadFailedAfterCreate ==
    /\ pc = "returned"
    /\ run_result.kind = "GetBatchResultsError"
    /\ run_result.error.kind = "DownloadFileError"
    /\ Cardinality(CallsOf("create")) = 1
    /\ batch.status = "Completed"

\* C23: a poll that observes Failed, Expired, Cancelled or Cancelling ends
\* the run with that error: nothing is uploaded, created, polled or
\* downloaded afterwards and no job replaces the failed one.
C23_JobFailureIsFatal ==
    wait_result.kind \in {"BatchFailed", "BatchExpired", "BatchCancelled"} =>
        /\ pc \in {"waiting", "returned"}
        /\ pc = "returned" => run_result = [kind |-> "WaitForBatchError",
                                            error |-> wait_result]
        /\ wpc = "done"
        /\ batch.status \in {"Failed", "Expired", "Cancelled", "Cancelling"}
        /\ rpc = "idle" /\ downloads = 0
        /\ Cardinality(CallsOf("upload")) <= 1
        /\ Cardinality(CallsOf("create")) <= 1
        /\ Cardinality(RunJobs) = Cardinality(CallsOf("create"))

\* C23, its case: the job the run created was seen Cancelling after a
\* non-terminal poll, and the run has returned.
C23_CreatedJobCancelling ==
    /\ pc = "returned"
    /\ run_result.kind = "WaitForBatchError"
    /\ run_result.error.kind = "BatchCancelled"
    /\ batch.status = "Cancelling"
    /\ Cardinality(RunJobs) = 1

\* C24: download_file is called only after a get-status call of the run
\* answered Completed for the run's job, created or reused, and with the
\* output file id of that answer.
C24_DownloadOnlyAfterCompleted ==
    downloads > 0 =>
        /\ wait_result.kind = "Ok"
        /\ wait_result.batch = batch
        /\ batch.status = "Completed"
        /\ batch.id = plan_batch.value.id
        /\ downloaded.some
        /\ downloaded = batch.output_file_id

\* C24, its case: the output of a job of another client, listed as
\* completed, has been downloaded.
C24_ReusedJobDownloaded ==
    /\ downloads = 1
    /\ plan_batch.value.origin = "foreign"
    /\ plan_batch.value.status = "Completed"
    /\ CallsOf("create") = {}

---------------------------------------------------------------------------
(* A claim about wait_for_batch and its caller, checked under SpecWait *)

\* A deadline of the caller, in seconds after the call of wait_for_batch.
CallerDeadline == 5

\* C25: a deadline of the caller that falls into an inter-poll sleep stops
\* the loop: the pending sleep is not completed and no get-status call
\* follows it.
C25_DeadlineStopsPolling ==
    [][(/\ wpc = "sleep"
        /\ seconds_waited <= CallerDeadline
        /\ CallerDeadline < seconds_waited + delay) => wpc' # "poll"]_vars

---------------------------------------------------------------------------
(* Claims about the response cache, checked under SpecChat *)

\* C26: a call that begins after the API has answered its request with a
\* completion, the entry being still in the cache, returns that same
\* content, is not sent to the API and adds nothing to usage.
C26_CachedAnswerCostsNothing ==
    \A t \in Callers :
        (callers[t].pc = "returned" /\ callers[t].after # {}) =>
            /\ ~callers[t].called
            /\ callers[t].added = 0
            /\ callers[t].result.kind = "Ok"
            /\ callers[t].after = {callers[t].result.value}

\* C27: of two callers with the same request on one client at most one is
\* answered by the API, and usage grows by one response only.
C27_OneCallerCallsTheApi ==
    \A t, u \in Callers :
        (/\ t # u
         /\ callers[t].request.some
         /\ callers[t].request = callers[u].request) =>
            /\ ~(callers[t].called /\ callers[u].called)
            /\ callers[t].added = 0 \/ callers[u].added = 0

---------------------------------------------------------------------------
(* A claim about the metadata of a created job, checked under SpecRerun *)

\* C28: the create_batch call of a run posts exactly the one-key map
\* request_hash -> decimal text of the submission digest, the job the
\* provider makes from it carries that map and passes the comparison a run
\* with the same digest makes, and the body create_batch builds holds the
\* caller's map as it was given, whatever its keys.
C28_JobCarriesDigestText ==
    [][pc = "create" =>
         LET sent == calls'[Len(calls')]
             text == HashToString(request_hash)
         IN  /\ sent.metadata = "request_hash" :> text
             /\ pc' = "wait" =>
                   /\ Head(jobs').metadata = Some("request_hash" :> text)
                   /\ HashMatches(Head(jobs'), request_hash)
             /\ \A m \in CallerMaps :
                   CreateBatchRequest(file_id.value, m).metadata = m
             /\ DOMAIN CreateBatchRequest(file_id.value, EmptyMap).metadata = {}]_vars

\* A second run took up the job the first run created: it made no
\* create_batch call of its own.
C28_LaterRunFoundTheJob ==
    /\ runs = 2
    /\ pc = "wait"
    /\ plan_batch.some
    /\ plan_batch.value.origin = "run"
    /\ \A k \in 1..Len(calls) : calls[k].op # "create"

---------------------------------------------------------------------------
(* A claim about the reconciliation, checked under SpecResults *)

\* C30: whatever the parsed result lines hold, a line with neither a
\* response nor an error included, batch_chat_with_messages_raw returns Ok
\* or an error value and does not panic.
C30_NoPanicOnAnyLine ==
    rec_result.kind # "panic"

---------------------------------------------------------------------------
(* A claim about create_batch, checked under SpecCreate *)

\* C29: create_batch returns RequestError exactly when the request or the
\* reading of the body failed; for a body that is a job record it returns Ok
\* with that record; for a body that is no job record but an error payload,
\* OpenAiError with that payload; for a body that is neither, JsonParseError
\* with the text of the body.
C29_FailureKindsKeptApart ==
    cpc = "returned" =>
        IF ~response_text.some THEN create_result.kind = "RequestError"
        ELSE LET text == response_text.value
             IN  IF text.batch.some
                 THEN create_result = [kind |-> "Ok", batch |-> text.batch.value]
                 ELSE IF text.error.some
                 THEN create_result =
                          [kind |-> "OpenAiError", error |-> text.error.value]
                 ELSE /\ create_result.kind = "JsonParseError"
                      /\ create_result.text = text

\* create_batch returned for a job record that OpenAiError's deserializer
\* reads as well.
C29_JobRecordReadBothWays ==
    /\ cpc = "returned"
    /\ response_text.some
    /\ response_text.value.batch.some
    /\ response_text.value.error.some

---------------------------------------------------------------------------
(* Claims about the calls and the sleeps of wait_for_batch, checked under
   SpecWait *)

\* C31: wait_for_batch calls nothing but get_batch_status, and that for the
\* job id it was given; the record it returns with Ok is the record the
\* last call fetched, field by field.
C31_OnlyObserves ==
    /\ wait_calls \subseteq {GetStatusCall(batch_id)}
    /\ wait_result.kind = "Ok" =>
          /\ wait_result.batch = batch
          /\ wait_result.batch \in Replies(batch_id)

\* wait_for_batch returned a completed job with its output file after
\* having slept.
C31_ReturnedAfterSleeping ==
    /\ wpc = "done"
    /\ wait_result.kind = "Ok"
    /\ wait_result.batch.output_file_id.some
    /\ seconds_waited > 0
    /\ wait_calls # {}

\* C32: the first poll is made before any sleep and every later poll after
\* exactly one; a sleep is started only after a poll; and once a poll has
\* fetched a terminal status wait_for_batch has returned what that status
\* stands for, however long it has waited.
C32_PollsAndSleepsAlternate ==
    /\ wpc = "poll" => slept = (IF wait_calls = {} THEN 0 ELSE 1)
    /\ wpc = "sleep" => (slept = 0 /\ wait_calls # {})
    /\ (batch # NoBatch /\ batch.status \notin NonTerminal) =>
          /\ wpc = "done"
          /\ slept = 0
          /\ wait_result = TerminalResult(batch_id, batch)

\* A completed job was returned by a poll made after the ceiling had been
\* reached.
C32_CompletedPastTheCeiling ==
    /\ wpc = "done"
    /\ wait_result.kind = "Ok"
    /\ seconds_waited >= TimeoutSeconds

---------------------------------------------------------------------------
(* Claims about list_batches, checked under SpecList *)

\* The pages list_batches has fetched, in fetch order.
FetchedPages ==
    LET n == IF pc = "returned" THEN Len(calls) - 1 ELSE Len(calls)
    IN  [k \in 1..n |-> calls[k].reply]

RECURSIVE ConcatData(_)
ConcatData(pages) ==
    IF pages = <<>> THEN <<>>
    ELSE Head(pages).data \o ConcatData(Tail(pages))

\* C33: the first page is asked for without a cursor and every later one
\* after the last job of the page before it; a page is followed by another
\* request only if it is non-empty with has_more = true; list_batches
\* returns the concatenation of the pages in fetch order at the first page
\* that is empty or has has_more = false; and after an error on any page the
\* result is the error alone.
C33_PagesInFetchOrder ==
    LET pages == FetchedPages
    IN  /\ \A k \in 1..Len(calls) :
              calls[k].after =
                  IF k = 1 THEN None
                  ELSE Some(pages[k - 1].data[Len(pages[k - 1].data)].id)
        /\ \A k \in 1..Len(calls) - 1 :
              pages[k].data # <<>> /\ pages[k].has_more
        /\ pc = "listed" =>
              /\ all_batches = ConcatData(pages)
              /\ pages[Len(pages)].data = <<>> \/ ~pages[Len(pages)].has_more
        /\ pc = "list" /\ calls # <<>> =>
              pages[Len(pages)].data # <<>> /\ pages[Len(pages)].has_more
        /\ pc = "returned" => run_result = [kind |-> "ListBatchesError"]

\* list_batches returned three jobs from two pages.
C33_TwoPagesReturned ==
    /\ pc = "listed"
    /\ Len(calls) = 2
    /\ Len(all_batches) = 3
    /\ ~calls[2].reply.has_more

\* C34: at every request of list_batches, however many pages it has
\* fetched, the loop goes on exactly when the page is non-empty with
\* has_more = true, returns the jobs when the page is empty or has
\* has_more = false, and returns the error when the request fails; so it
\* does not return while every page is non-empty with has_more = true.
C34_GoesOnWhileThereIsMore ==
    [][(pc = "list" /\ Len(calls') = Len(calls) + 1) =>
         LET c == calls'[Len(calls')]
         IN  IF "reply" \in DOMAIN c
             THEN /\ pc' \in {"list", "listed"}
                  /\ pc' = "list" <=> (c.reply.data # <<>> /\ c.reply.has_more)
             ELSE pc' = "returned"]_vars

\* Every page followed was non-empty with has_more = true and list_batches
\* has not returned.
C34_StillListing ==
    /\ pc = "list"
    /\ Len(calls) = MaxPages
    /\ \A k \in 1..Len(calls) :
          calls[k].reply.data # <<>> /\ calls[k].reply.has_more

---------------------------------------------------------------------------
(* Claims about repeated requests, checked under SpecRerun and SpecResults *)

RECURSIVE SumOfFirsts(_, _)
\* The wrapping sum of the first occurrence of each hash of hs not in seen.
SumOfFirsts(hs, seen) ==
    IF hs = <<>> THEN U64Zero
    ELSE IF Head(hs) \in seen THEN SumOfFirsts(Tail(hs), seen)
    ELSE U64WrappingAdd(Head(hs),
                        SumOfFirsts(Tail(hs), seen \cup {Head(hs)}))

HashesOf(ps) == [i \in 1..Len(ps) |-> RequestHashAt(ps, i, model)]

\* C35: the digest of a run is the wrapping sum of the distinct request
\* hashes of its list, each counted once, and 0 for the empty list; a list
\* with the same requests, repeated or not, has the same digest, so the jobs
\* whose request_hash passes the comparison of this run are those that pass
\* it in a run of that list.
C35_DigestOfDistinctRequests ==
    pc = "list" =>
        /\ request_hash = SumOfFirsts(HashesOf(prompts), {})
        /\ prompts = <<>> => request_hash = U64Zero
        /\ \A qs \in PromptLists :
              {qs[i] : i \in DOMAIN qs} = {prompts[i] : i \in DOMAIN prompts}
              => /\ SubmissionDigest(HashesOf(qs)) = request_hash
                 /\ \A k \in 1..Len(jobs) :
                       HashMatches(jobs[k], SubmissionDigest(HashesOf(qs)))
                       <=> HashMatches(jobs[k], request_hash)

\* The second run holds one request twice and took up a job of the first
\* run whose request_hash is the text of that request's hash alone.
C35_RepeatedRequestReusedJob ==
    /\ runs = 2
    /\ pc = "wait"
    /\ Len(prompts) = 2
    /\ prompts[1] = prompts[2]
    /\ plan_batch.some
    /\ plan_batch.value.origin = "run"
    /\ plan_batch.value.metadata.value["request_hash"]
           = HashToString(RequestHashAt(prompts, 1, model))
    /\ \A k \in 1..Len(calls) : calls[k].op = "list"

\* The position of the last item of `items` with this custom id.
LastWith(items, id) ==
    CHOOSE k \in 1..Len(items) :
        /\ items[k].custom_id = id
        /\ \A j \in k + 1..Len(items) : items[j].custom_id # id

\* C36: a request that occurs twice in a list gets one custom id, under
\* which the content holds a record at each of the two positions; and a
\* run that returns Ok holds at every position the first choice of the last
\* result line with that position's custom id, so positions with one custom
\* id hold the same result.
C36_RepeatedIdsLastLineWins ==
    /\ \A ps \in PromptLists :
          IdsOf(ps, model) = rec_ids =>
              LET blob == create_batch_content(
                              [i \in 1..Len(ps) |-> new_chat(rec_ids[i], model, ps[i])])
              IN  /\ Len(blob) = 2 * Len(ps)
                  /\ \A i, j \in 1..Len(ps) :
                        ps[i] = ps[j] =>
                            /\ rec_ids[i] = rec_ids[j]
                            /\ blob[2 * i - 1].fields[1] = <<"custom_id", rec_ids[j]>>
                            /\ blob[2 * j - 1].fields[1] = <<"custom_id", rec_ids[i]>>
    /\ (rpc = "returned" /\ rec_result.kind = "Ok") =>
          /\ Len(rec_result.values) = Len(rec_ids)
          /\ \A i \in 1..Len(rec_ids) :
                LET items == get_result.items
                    item == items[LastWith(items, rec_ids[i])]
                IN  rec_result.values[i] = item.response.value.body.choices[1]

\* A run of one request given twice returned Ok from two result lines with
\* its custom id and different first choices.
C36_TwoLinesOneId ==
    /\ rpc = "returned"
    /\ rec_result.kind = "Ok"
    /\ Len(rec_ids) = 2
    /\ rec_ids[1] = rec_ids[2]
    /\ Len(get_result.items) = 2
    /\ get_result.items[1].custom_id = get_result.items[2].custom_id
    /\ get_result.items[1].response # get_result.items[2].response
    /\ rec_result.values[1] = rec_result.values[2]

---------------------------------------------------------------------------
(* A claim about cached failures, checked under SpecChat *)

\* C37: a call that begins after calls with its request have returned the
\* error of an error payload or of an unparseable body returns one of
\* those errors, from the cache: the API is not called for it and it adds
\* nothing to the usage.
C37_FailureAnsweredFromCache ==
    \A t \in Callers :
        (callers[t].pc = "returned" /\ callers[t].errs # {}) =>
            /\ callers[t].result \in callers[t].errs
            /\ ~callers[t].called
            /\ callers[t].added = 0

---------------------------------------------------------------------------
(* A claim about a node with oneOf and anyOf, checked under SpecSchema *)

\* C38: a node that holds oneOf and anyOf comes out with an anyOf of as
\* many branches as its oneOf had, each the transformed oneOf branch of its
\* place; a branch of its former anyOf whose transform is none of them is
\* not in it.
C38_OneOfReplacesAnyOf ==
    applied = 1 =>
        \A n \in NodesOf(schema_in) :
            ({"oneOf", "anyOf"} \subseteq DOMAIN n.obj
                /\ IsArr(n.obj["oneOf"]) /\ IsArr(n.obj["anyOf"])) =>
                LET m == Transform(n)
                    ones == n.obj["oneOf"].arr
                    anys == n.obj["anyOf"].arr
                    out == m.obj["anyOf"].arr
                IN  /\ m \in NodesOf(schema)
                    /\ Len(out) = Len(ones)
                    /\ \A i \in 1..Len(ones) : out[i] = Transform(ones[i])
                    /\ \A k \in 1..Len(anys) :
                          (\A i \in 1..Len(ones) :
                               Transform(anys[k]) # Transform(ones[i]))
                          => \A i \in 1..Len(out) : out[i] # Transform(anys[k])

\* A node whose anyOf branch is none of its oneOf branches was transformed.
C38_AnyOfBranchDropped ==
    /\ applied = 1
    /\ \E n \in NodesOf(schema_in) :
           /\ {"oneOf", "anyOf"} \subseteq DOMAIN n.obj
           /\ Transform(n.obj["anyOf"].arr[1]) # Transform(n.obj["oneOf"].arr[1])
           /\ Transform(n) \in NodesOf(schema)

---------------------------------------------------------------------------
(* A claim about embed_fn, checked under SpecEmbed *)

\* The documents of the r-th chunk of batch_size: the positions
\* (r - 1) * batch_size + 1 up to r * batch_size, as far as there are
\* documents.
ChunkOfDocuments(r) ==
    SubSeq(documents, (r - 1) * batch_size + 1,
           IF r * batch_size < Len(documents)
           THEN r * batch_size ELSE Len(documents))

\* The number of a (non-empty) chunk's documents and the number of
\* embeddings of the response to it differ.
WrongCount(r) ==
    /\ replies[r].raw = "data"
    /\ Len(replies[r].data) # Len(embed_sent[r])

\* C39: the r-th request of embed_fn holds the texts of the r-th chunk of
\* batch_size documents, in input order, and is never empty or longer than
\* batch_size; when embed_fn returns Ok it has sent ceil(n / batch_size)
\* requests and returns one pair per document, in input order, the j-th
\* document of a chunk with the j-th embedding of the response to that
\* chunk; a response with another number of embeddings than its chunk has
\* documents ends embed_fn with IncorrectNumberOfEmbeddings, which carries
\* no pairs, and its request is the last one sent.
C39_ChunksInOrderPairedByPosition ==
    /\ \A r \in 1..Len(embed_sent) :
          /\ Len(embed_sent[r]) \in 1..batch_size
          /\ embed_sent[r] =
                [j \in 1..Len(ChunkOfDocuments(r)) |-> f(ChunkOfDocuments(r)[j])]
    /\ embed_result.kind = "Ok" =>
          /\ Len(embed_sent) = (Len(documents) + batch_size - 1) \div batch_size
          /\ Len(replies) = Len(embed_sent)
          /\ Len(embed_result.value) = Len(documents)
          /\ \A i \in 1..Len(documents) :
                embed_result.value[i] =
                    <<documents[i],
                      Vector(replies[((i - 1) \div batch_size) + 1]
                                 .data[((i - 1) % batch_size) + 1].embedding)>>
    /\ \A r \in 1..Len(replies) :
          WrongCount(r) =>
              /\ epc = "returned"
              /\ embed_result = [kind |-> "IncorrectNumberOfEmbeddings"]
              /\ r = Len(embed_sent)
    /\ embed_result.kind = "IncorrectNumberOfEmbeddings" =>
          /\ Len(replies) = Len(embed_sent)
          /\ WrongCount(Len(replies))

\* Three documents went out in chunks of two, a full chunk and a shorter
\* one, the first response listing its two different embeddings with the
\* indices going down, and embed_fn returned Ok.
C39_TwoChunksReturned ==
    /\ embed_result.kind = "Ok"
    /\ Len(documents) = 3
    /\ batch_size = 2
    /\ Len(embed_sent) = 2
    /\ replies[1].data[1].index = 1
    /\ replies[1].data[1].embedding # replies[1].data[2].embedding

====
